---------------------------- MODULE Spec2Model ----------------------------
(***************************************************************************)
(* Model of the fog-of-war map engine of vvander (src/App.tsx, the version *)
(* at lines 671-1510): resolution selection, the grid cache and the hex    *)
(* set assembler, the throttled region update, the fog computation with    *)
(* its polygons and the deferred prefetch.                                 *)
(*                                                                         *)
(* Angles are integers in millidegrees (1 unit = 0.001 degree): every      *)
(* table entry and threshold of the source is a whole number of            *)
(* millidegrees, and arithmetic is exact (no floating-point rounding).     *)
(* Times are integers in milliseconds.                                     *)
(***************************************************************************)
EXTENDS Integers, Sequences, FiniteSets, TLC

VARIABLES
    hexGridCache,     \* Map "res:latCell:lngCell" -> hex[]    (App.tsx:768)
    computeCalls,     \* ghost: key -> number of computeGridCellHexes calls
    region,           \* useState<Region | null>               (App.tsx:961)
    loc,              \* useState<{latitude, longitude} | null> (App.tsx:960)
    visited,          \* useState<string[]>(getVisited)        (App.tsx:959)
    store,            \* rows of the SQLite table "visited"    (App.tsx:684)
    lastUpdateRef,    \* useRef<number>(0)                     (App.tsx:970)
    pendingRegionRef, \* useRef<Region | null>(null)           (App.tsx:971)
    timeoutRef,       \* useRef<Timeout | null>(null)          (App.tsx:972)
    prevRegionRef,    \* useRef<Region | null>(null)           (App.tsx:973)
    effectTimer,      \* the `timer` the current effect cleanup closes over
    timers,           \* the JS timer queue: timers set and not yet fired
    nextTimerId,      \* ids handed out by setTimeout
    now,              \* Date.now()
    fog,              \* value of the fog useMemo              (App.tsx:1055)
    notifyCount,      \* ghost: number of viewport notifications so far
    lastNotified,     \* ghost: the viewport of the latest notification
    lastApply,        \* ghost: what updateRegion last did to the region state
    budget,           \* ghost: external events and clock ticks still allowed
    lastAssemble,     \* ghost: the assembler calls made by the latest step
    scheduled,        \* ghost: ids of the regions a prefetch was scheduled for
    history           \* ghost: the calls made by a harness, in order

vars == <<hexGridCache, computeCalls, region, loc, visited, store,
          lastUpdateRef, pendingRegionRef, timeoutRef, prevRegionRef,
          effectTimer, timers, nextTimerId, now, fog, notifyCount,
          lastNotified, lastApply, budget, lastAssemble, scheduled,
          history>>

NULL == [null |-> TRUE]

\* timeoutRef.current = null; setTimeout returns positive ids
NoTimer == 0

-----------------------------------------------------------------------------
(* Bounds of the model                                                     *)

MaxEvents == 6          \* external events (notifications, button presses,
                        \* location fixes, clock ticks) per run
MaxCalls == 3           \* assembler calls per run of the assembler harness
MaxRingLen == 4         \* vertices of a ring handed to the hole builder
MaxResCalls == 2        \* getDisplayRes calls per run of the resolution harness
MaxFogCalls == 2        \* fog computations per run of the diagnostics harness
MaxPoints == 160        \* location points in the time range of the path replay

-----------------------------------------------------------------------------
(* Tuning tables and constants                                             *)

STORAGE_RES == 10
THROTTLE_MS == 100
PREFETCH_DELAY_MS == 50
HEX_OVERSCAN == 4
PREFETCH_EXPANSION == 6
HEX_CAP == 10000
INITIAL_DELTA == 10
FOG_BUDGET_MS == 20
MAX_SEGMENTS == 50

Abs(x) == IF x < 0 THEN -x ELSE x

\* mutant of getDisplayRes: a span equal to a threshold counts as below it
getDisplayRes_Inclusive(latDelta) ==
    IF latDelta <= 40 THEN 10
    ELSE IF latDelta <= 100 THEN 9
    ELSE IF latDelta <= 300 THEN 8
    ELSE IF latDelta <= 900 THEN 7
    ELSE IF latDelta <= 2000 THEN 6
    ELSE IF latDelta <= 4000 THEN 5
    ELSE IF latDelta <= 10000 THEN 4
    ELSE IF latDelta <= 22000 THEN 3
    ELSE IF latDelta <= 50000 THEN 2
    ELSE IF latDelta <= 90000 THEN 1
    ELSE 0

\* mutant of getDisplayRes: two rows of the table are swapped
getDisplayRes_Swapped(latDelta) ==
    IF latDelta < 40 THEN 10
    ELSE IF latDelta < 100 THEN 9
    ELSE IF latDelta < 300 THEN 8
    ELSE IF latDelta < 900 THEN 6
    ELSE IF latDelta < 2000 THEN 7
    ELSE IF latDelta < 4000 THEN 5
    ELSE IF latDelta < 10000 THEN 4
    ELSE IF latDelta < 22000 THEN 3
    ELSE IF latDelta < 50000 THEN 2
    ELSE IF latDelta < 90000 THEN 1
    ELSE 0

\* Thresholds in millidegrees; a span equal to a threshold is not below it.
getDisplayRes(latDelta) ==
    IF latDelta < 40 THEN 10
    ELSE IF latDelta < 100 THEN 9
    ELSE IF latDelta < 300 THEN 8
    ELSE IF latDelta < 900 THEN 7
    ELSE IF latDelta < 2000 THEN 6
    ELSE IF latDelta < 4000 THEN 5
    ELSE IF latDelta < 10000 THEN 4
    ELSE IF latDelta < 22000 THEN 3
    ELSE IF latDelta < 50000 THEN 2
    ELSE IF latDelta < 90000 THEN 1
    ELSE 0

HEX_PADDING ==
    [r \in 0..10 |->
        CASE r = 0 -> 50000 [] r = 1 -> 20000 [] r = 2 -> 8000
          [] r = 3 -> 3000  [] r = 4 -> 1200  [] r = 5 -> 450
          [] r = 6 -> 170   [] r = 7 -> 65    [] r = 8 -> 25
          [] r = 9 -> 10    [] r = 10 -> 4]

GRID_CELL_SIZE ==
    [r \in 0..10 |->
        CASE r = 0 -> 30000 [] r = 1 -> 10000 [] r = 2 -> 5000
          [] r = 3 -> 2000  [] r = 4 -> 1000  [] r = 5 -> 500
          [] r = 6 -> 200   [] r = 7 -> 100   [] r = 8 -> 50
          [] r = 9 -> 20    [] r = 10 -> 10]

\* HEX_PADDING[res] || 0.01
PadOf(res) == IF res \in DOMAIN HEX_PADDING THEN HEX_PADDING[res] ELSE 10

\* GRID_CELL_SIZE[res] || 0.1
CellSizeOf(res) == IF res \in DOMAIN GRID_CELL_SIZE THEN GRID_CELL_SIZE[res] ELSE 100

\* Math.floor(a / b) for b > 0
FloorDiv(a, b) == a \div b

\* the least integer q with q * b >= a, for b > 0
CeilDiv(a, b) == -((-a) \div b)

-----------------------------------------------------------------------------
(* The hexagonal tiling (library @six33/h3-reactnative)                    *)
(*                                                                         *)
(* A hex of resolution res is <<res, i, j>>; its centre lies on a lattice  *)
(* of pitch HexPitch(res), odd rows shifted by half a pitch.  polyfill     *)
(* returns the hexes whose centre lies in the polygon, edges included.     *)

HexPitch(res) == CellSizeOf(res) \div 2

RowShift(res, i) == IF i % 2 = 0 THEN 0 ELSE HexPitch(res) \div 2

HexCentre(h) ==
    [lat |-> h[2] * HexPitch(h[1]),
     lng |-> h[3] * HexPitch(h[1]) + RowShift(h[1], h[2])]

\* polyfill of the rectangle [minLat, maxLat] x [minLng, maxLng]
polyfillRect(minLat, maxLat, minLng, maxLng, res) ==
    LET p == HexPitch(res)
    IN  UNION { { <<res, i, j>> :
                    j \in CeilDiv(minLng - RowShift(res, i), p)
                          .. FloorDiv(maxLng - RowShift(res, i), p) } :
                i \in CeilDiv(minLat, p) .. FloorDiv(maxLat, p) }

\* geoToH3(lat, lng, res): the hex whose centre is nearest to the point
geoToH3(lat, lng, res) ==
    LET p == HexPitch(res)
        i == FloorDiv(2 * lat + p, 2 * p)
        j == FloorDiv(2 * (lng - RowShift(res, i)) + p, 2 * p)
    IN  <<res, i, j>>

-----------------------------------------------------------------------------
(* Grid cache and hex set assembler                                        *)

\* mutant of CacheKey: the resolution is left out of the key
CacheKey_NoRes(res, latCell, lngCell) == <<0, latCell, lngCell>>

\* `${res}:${latCell}:${lngCell}`: the decimal rendering of three integers
\* joined by colons, one string per triple and one triple per string.
CacheKey(res, latCell, lngCell) == <<res, latCell, lngCell>>

getGridCellKey(lat, lng, res) ==
    LET cellSize == CellSizeOf(res)
    IN  CacheKey(res, FloorDiv(lat, cellSize), FloorDiv(lng, cellSize))

getGridCellBounds(latCell, lngCell, cellSize) ==
    [minLat |-> latCell * cellSize, maxLat |-> (latCell + 1) * cellSize,
     minLng |-> lngCell * cellSize, maxLng |-> (lngCell + 1) * cellSize]

computeGridCellHexes(latCell, lngCell, res) ==
    LET b == getGridCellBounds(latCell, lngCell, CellSizeOf(res))
    IN  polyfillRect(b.minLat, b.maxLat, b.minLng, b.maxLng, res)

\* a / b rounded toward zero, as (a / b) | 0 rounds
TruncDiv(a, b) == IF a >= 0 THEN a \div b ELSE -((-a) \div b)

\* mutant of CellRange: the quotients are truncated toward zero, not floored
CellRange_Trunc(r, res, expansionMultiplier) ==
    LET pad == PadOf(res)
        cellSize == CellSizeOf(res)
        expandedLatDelta == r.latitudeDelta * expansionMultiplier
        expandedLngDelta == r.longitudeDelta * expansionMultiplier
    IN  [minLatCell |-> TruncDiv(2 * r.latitude - expandedLatDelta - 2 * pad, 2 * cellSize),
         maxLatCell |-> TruncDiv(2 * r.latitude + expandedLatDelta + 2 * pad, 2 * cellSize),
         minLngCell |-> TruncDiv(2 * r.longitude - expandedLngDelta - 2 * pad, 2 * cellSize),
         maxLngCell |-> TruncDiv(2 * r.longitude + expandedLngDelta + 2 * pad, 2 * cellSize)]

\* mutant of CellRange: the expansion moves the box instead of growing it
CellRange_Shift(r, res, expansionMultiplier) ==
    LET pad == PadOf(res)
        cellSize == CellSizeOf(res)
        shiftLat == r.latitudeDelta * (expansionMultiplier - 1)
        shiftLng == r.longitudeDelta * (expansionMultiplier - 1)
    IN  [minLatCell |-> FloorDiv(2 * r.latitude + shiftLat - r.latitudeDelta - 2 * pad, 2 * cellSize),
         maxLatCell |-> FloorDiv(2 * r.latitude + shiftLat + r.latitudeDelta + 2 * pad, 2 * cellSize),
         minLngCell |-> FloorDiv(2 * r.longitude + shiftLng - r.longitudeDelta - 2 * pad, 2 * cellSize),
         maxLngCell |-> FloorDiv(2 * r.longitude + shiftLng + r.longitudeDelta + 2 * pad, 2 * cellSize)]

\* The corner cells of the expanded, padded box.  centre -+ span*m/2 -+ pad is
\* divided by cellSize; numerator and denominator are doubled to stay integral.
CellRange(r, res, expansionMultiplier) ==
    LET pad == PadOf(res)
        cellSize == CellSizeOf(res)
        expandedLatDelta == r.latitudeDelta * expansionMultiplier
        expandedLngDelta == r.longitudeDelta * expansionMultiplier
    IN  [minLatCell |-> FloorDiv(2 * r.latitude - expandedLatDelta - 2 * pad, 2 * cellSize),
         maxLatCell |-> FloorDiv(2 * r.latitude + expandedLatDelta + 2 * pad, 2 * cellSize),
         minLngCell |-> FloorDiv(2 * r.longitude - expandedLngDelta - 2 * pad, 2 * cellSize),
         maxLngCell |-> FloorDiv(2 * r.longitude + expandedLngDelta + 2 * pad, 2 * cellSize)]

\* The two nested loops over the rows and columns between the corner cells:
\* the list of cells in the order the loops push them.
CellsOfRange(c) ==
    LET rows == IF c.maxLatCell >= c.minLatCell THEN c.maxLatCell - c.minLatCell + 1 ELSE 0
        cols == IF c.maxLngCell >= c.minLngCell THEN c.maxLngCell - c.minLngCell + 1 ELSE 0
    IN  [k \in 1..(rows * cols) |->
            [latCell |-> c.minLatCell + ((k - 1) \div cols),
             lngCell |-> c.minLngCell + ((k - 1) % cols)]]

getGridCellsForRegion(r, res, expansionMultiplier) ==
    CellsOfRange(CellRange(r, res, expansionMultiplier))

\* mutant of CachePut: the map is replaced by one holding the new entry only
CachePut_Reset(cache, key, cellHexes) == (key :> cellHexes)

\* hexGridCache.set(key, cellHexes): the entry under key is (re)placed
CachePut(cache, key, cellHexes) == (key :> cellHexes) @@ cache

\* ghost: one more computeGridCellHexes call for key
CountCall(calls, key) ==
    (key :> (IF key \in DOMAIN calls THEN calls[key] + 1 ELSE 1)) @@ calls

\* if (cellHexes): the entry exists (an empty list is an entry too)
CacheHas(cache, key) == key \in DOMAIN cache

\* mutant of CacheHit: a hit is counted but its hexes are not added
CacheHit_NoHexes(acc, key) ==
    [acc EXCEPT !.cacheHits = @ + 1]

\* the hit branch of the loop body: count it and add the cached hexes
CacheHit(acc, key) ==
    [acc EXCEPT !.cacheHits = @ + 1,
                !.hexes = @ \cup acc.cache[key]]

\* mutant of CacheStore: the computed hexes are returned but never stored
CacheStore_NoSet(acc, key, cellHexes) ==
    [acc EXCEPT !.cacheMisses = @ + 1,
                !.calls = CountCall(@, key),
                !.hexes = @ \cup cellHexes]

\* the miss branch of the loop body once the cell is computed: count the
\* miss, store the hexes under the key and add them to the result
CacheStore(acc, key, cellHexes) ==
    [acc EXCEPT !.cacheMisses = @ + 1,
                !.cache = CachePut(@, key, cellHexes),
                !.calls = CountCall(@, key),
                !.hexes = @ \cup cellHexes]

\* the miss branch of the loop body
CacheMiss(acc, key, latCell, lngCell, res) ==
    CacheStore(acc, key, computeGridCellHexes(latCell, lngCell, res))

\* the body of the loop over the cells, for the k-th cell
LoopBody(cells, k, res, acc) ==
    LET latCell == cells[k].latCell
        lngCell == cells[k].lngCell
        key == CacheKey(res, latCell, lngCell)
    IN  IF CacheHas(acc.cache, key)
        THEN CacheHit(acc, key)
        ELSE CacheMiss(acc, key, latCell, lngCell, res)

\* the iterations lo..hi of the loop, in order: the first half, then the
\* second half on what the first half left
RECURSIVE LoopSpan(_, _, _, _, _)
\* the second half of the iterations, run on the record the first half returned
SecondHalf(cells, lo, hi, res, acc) ==
    IF acc.cacheHits + acc.cacheMisses >= 0
    THEN LoopSpan(cells, lo, hi, res, acc) ELSE acc
LoopSpan(cells, lo, hi, res, acc) ==
    IF lo > hi THEN acc
    ELSE IF lo = hi THEN LoopBody(cells, lo, res, acc)
    ELSE SecondHalf(cells, ((lo + hi) \div 2) + 1, hi, res,
                    LoopSpan(cells, lo, (lo + hi) \div 2, res, acc))

\* the loop over the cells, from the k-th cell on
AssembleLoop(cells, k, res, acc) == LoopSpan(cells, k, Len(cells), res, acc)

\* ghost: what one assembler call was asked and what it reported
CallSummary(r, res, expansionMultiplier, a) ==
    [region |-> r, res |-> res, multiplier |-> expansionMultiplier,
     cells |-> Len(getGridCellsForRegion(r, res, expansionMultiplier)),
     cacheHits |-> a.cacheHits, cacheMisses |-> a.cacheMisses, hexes |-> a.hexes]

\* getHexesFromGridCache run on the cache `cache`; the result carries the
\* returned { hexes, cacheHits, cacheMisses } and the cache it leaves behind.
getHexesFromGridCache(cache, calls, r, res, expansionMultiplier) ==
    AssembleLoop(getGridCellsForRegion(r, res, expansionMultiplier), 1, res,
                 [cache |-> cache, calls |-> calls, hexes |-> {},
                  cacheHits |-> 0, cacheMisses |-> 0])

-----------------------------------------------------------------------------
(* Inputs of the program model                                             *)

\* the clock advances in steps of TickMs; Date.now() at construction is far
\* beyond THROTTLE_MS
TickMs == THROTTLE_MS \div 2
StartNow == 10 * THROTTLE_MS

\* A Region object; id stands for the identity of the object (0: the literal
\* built by startTracking, n: the object of the n-th notification).
MkRegion(lat, lng, latDelta, lngDelta, id) ==
    [latitude |-> lat, longitude |-> lng,
     latitudeDelta |-> latDelta, longitudeDelta |-> lngDelta, id |-> id]

\* viewports the map can report: a street-level view, the same view panned
\* north and panned east, and a zoomed-out (resolution 9) view
Viewports ==
    { <<37420, -88310, 2, 2>>, <<37432, -88310, 2, 2>>,
      <<37420, -88310, 40, 2>> }

\* positions the location service can report to startTracking
Positions == { <<37420, -88310>> }

\* positions the location service can report to the background task
BackgroundPositions == { <<37433, -88297>> }

-----------------------------------------------------------------------------
(* Visited resolver and fog computation                                    *)

\* h3ToParent(h, res): the coarser hex holding the centre of h
h3ToParent(h, res) ==
    LET c == HexCentre(h) IN geoToH3(c.lat, c.lng, res)

\* mutant of getVisitedAtRes: the stored hexes are used at every resolution
getVisitedAtRes_NoParent(visitedList, displayRes) == visitedList

\* the set of the stored hexes at the storage resolution, the set of their
\* parents at a coarser one
getVisitedAtRes(visitedList, displayRes) ==
    { IF displayRes >= STORAGE_RES THEN h ELSE h3ToParent(h, displayRes) :
        h \in visitedList }

\* Ring coordinates are in thirds of a millidegree: a vertex of the tiling is
\* the centroid of the three hexes that meet in it, and three times the
\* centroid is integral.
Deg(d) == 3000 * d

\* the k-th neighbour of h, counter-clockwise from the eastern one
Neighbour(h, k) ==
    LET i == h[2]
        j == h[3]
        o == i % 2
    IN  CASE k = 1 -> <<h[1], i, j + 1>>
          [] k = 2 -> <<h[1], i + 1, j + o>>
          [] k = 3 -> <<h[1], i + 1, j + o - 1>>
          [] k = 4 -> <<h[1], i, j - 1>>
          [] k = 5 -> <<h[1], i - 1, j + o - 1>>
          [] k = 6 -> <<h[1], i - 1, j + o>>

NextSide(k) == (k % 6) + 1

\* the k-th vertex of h as <<lat, lng>>: where h meets its k-th and its next
\* neighbour
HexVertex(h, k) ==
    LET a == HexCentre(h)
        b == HexCentre(Neighbour(h, k))
        c == HexCentre(Neighbour(h, NextSide(k)))
    IN  <<a.lat + b.lat + c.lat, a.lng + b.lng + c.lng>>

\* the sides of the hexes of S that no other hex of S shares, each directed
\* counter-clockwise around its hex
BoundaryEdges(S) ==
    { e \in UNION { { [from |-> HexVertex(h, k), to |-> HexVertex(h, NextSide(k)),
                       hex |-> h, across |-> Neighbour(h, NextSide(k))] : k \in 1..6 } :
                    h \in S } :
        e.across \notin S }

EdgeFrom(E, v) == CHOOSE e \in E : e.from = v

\* the loop of boundary edges through start, as the list of its vertices
RECURSIVE TraceLoop(_, _, _)
TraceLoop(E, start, acc) ==
    IF EdgeFrom(E, acc[Len(acc)]).to = start THEN acc
    ELSE TraceLoop(E, start, Append(acc, EdgeFrom(E, acc[Len(acc)]).to))

VertexLess(a, b) == a[1] < b[1] \/ (a[1] = b[1] /\ a[2] < b[2])

SeqRange(s) == { s[k] : k \in 1..Len(s) }

\* the boundary loops of S, each listed from its least vertex
BoundaryLoops(E) ==
    { l \in { TraceLoop(E, e.from, <<e.from>>) : e \in E } :
        \A v \in SeqRange(l) : v = l[1] \/ VertexLess(l[1], v) }

\* twice the signed area of a loop, from its k-th side on: positive when the
\* loop runs counter-clockwise (coordinates are taken relative to l[1])
RECURSIVE LoopArea(_, _)
LoopArea(l, k) ==
    IF k > Len(l) THEN 0
    ELSE (l[k][2] - l[1][2]) * (l[(k % Len(l)) + 1][1] - l[1][1])
         - (l[(k % Len(l)) + 1][2] - l[1][2]) * (l[k][1] - l[1][1])
         + LoopArea(l, k + 1)

\* the hexes of S connected to the hexes of C
RECURSIVE Component(_, _)
Component(S, C) ==
    IF { g \in S \ C : \E c \in C, k \in 1..6 : Neighbour(c, k) = g } = {} THEN C
    ELSE Component(S, C \cup { g \in S \ C : \E c \in C, k \in 1..6 : Neighbour(c, k) = g })

RECURSIVE SortLoops(_)
SortLoops(L) ==
    IF L = {} THEN <<>>
    ELSE LET m == CHOOSE l \in L : \A o \in L : o = l \/ VertexLess(l[1], o[1])
         IN  <<m>> \o SortLoops(L \ {m})

\* the hole loops of the polygon whose outer loop is `outer`
InnerLoops(S, E, loops, outer) ==
    { l \in loops : /\ LoopArea(l, 1) < 0
                    /\ EdgeFrom(E, l[1]).hex \in Component(S, {EdgeFrom(E, outer[1]).hex}) }

PolygonsOf(S, E, loops, outers) ==
    [p \in 1..Len(outers) |->
        <<outers[p]>> \o SortLoops(InnerLoops(S, E, loops, outers[p]))]

MergedPolygons(S, E, loops) ==
    PolygonsOf(S, E, loops, SortLoops({ l \in loops : LoopArea(l, 1) > 0 }))

\* h3SetToMultiPolygon(hexes, false): one polygon per connected group of
\* hexes; a polygon is the list of its loops, the outer one first, a loop is
\* an open list of [lat, lng] vertices
h3SetToMultiPolygon(hexes) ==
    MergedPolygons(hexes, BoundaryEdges(hexes), BoundaryLoops(BoundaryEdges(hexes)))

\* the loop of toClosedLatLngRing: a vertex equal to the one pushed last is
\* skipped (prevLat and prevLng start as NaN, which equals nothing)
RECURSIVE RingLoop(_, _, _)
RingLoop(coords, i, out) ==
    IF i > Len(coords) THEN out
    ELSE IF Len(out) > 0 /\ out[Len(out)] = [latitude |-> coords[i][1],
                                              longitude |-> coords[i][2]]
         THEN RingLoop(coords, i + 1, out)
         ELSE RingLoop(coords, i + 1,
                       Append(out, [latitude |-> coords[i][1],
                                    longitude |-> coords[i][2]]))

\* mutant of CloseRing: the first vertex is never repeated at the end
CloseRing_Never(out) == out

\* the closing step of toClosedLatLngRing
CloseRing(out) ==
    IF Len(out) > 0 /\ out[1] # out[Len(out)] THEN Append(out, out[1]) ELSE out

toClosedLatLngRing(coords) == CloseRing(RingLoop(coords, 1, <<>>))

\* Clockwise: SW -> NW -> NE -> SE -> SW
fogOuterRing ==
    << [latitude |-> Deg(20), longitude |-> Deg(-130)],
       [latitude |-> Deg(55), longitude |-> Deg(-130)],
       [latitude |-> Deg(55), longitude |-> Deg(-60)],
       [latitude |-> Deg(20), longitude |-> Deg(-60)],
       [latitude |-> Deg(20), longitude |-> Deg(-130)] >>

\* mutant of OuterOf: the last ring of the polygon is taken
OuterOf_Last(poly) == poly[Len(poly)]

\* poly[0]: the outer ring of a merged polygon
OuterOf(poly) == poly[1]

\* mutant of KeepRing: every non-empty ring is kept
KeepRing_Any(ring) == Len(ring) >= 1

\* if (ring.length >= 4)
KeepRing(ring) == Len(ring) >= 4

\* the loop that turns the outer rings of the merged polygons into holes
RECURSIVE HolesLoop(_, _, _)
HolesLoop(visitedMulti, p, holes) ==
    IF p > Len(visitedMulti) THEN holes
    ELSE IF KeepRing(toClosedLatLngRing(OuterOf(visitedMulti[p])))
         THEN HolesLoop(visitedMulti, p + 1,
                        Append(holes, toClosedLatLngRing(OuterOf(visitedMulti[p]))))
         ELSE HolesLoop(visitedMulti, p + 1, holes)

\* `fog-viewport-${displayRes}`
FogKey(displayRes) == <<"fog-viewport", displayRes>>

\* the one fog polygon: the fixed rectangle with the given holes
FogPolygon(displayRes, holes) ==
    [key |-> FogKey(displayRes), coordinates |-> fogOuterRing, holes |-> holes]

\* mutant of FogWithHoles: the holes are not handed to the polygon
FogWithHoles_NoHoles(displayRes, visitedMulti) ==
    << FogPolygon(displayRes, <<>>) >>

\* the partially explored branch of the fog useMemo, from the answer of
\* h3SetToMultiPolygon on
FogWithHoles(displayRes, visitedMulti) ==
    << FogPolygon(displayRes, HolesLoop(visitedMulti, 1, <<>>)) >>

\* mutant of OverCap: a superset of exactly the cap is refused too
OverCap_AtCap(count) == count >= HEX_CAP

\* viewportHexes.length > 10_000
OverCap(count) == count > HEX_CAP

\* mutant of FullyExplored: the fully explored case is never taken
FullyExplored_Never(viewportHexes, visitedNearViewport) == FALSE

\* visitedNearViewport.length === viewportHexes.length
FullyExplored(viewportHexes, visitedNearViewport) ==
    Cardinality(visitedNearViewport) = Cardinality(viewportHexes)

\* which of its results the fog useMemo returns
FogShape(viewportHexes, visitedNearViewport) ==
    IF OverCap(Cardinality(viewportHexes)) THEN "degraded"
    ELSE IF visitedNearViewport = {} THEN "outerOnly"
    ELSE IF FullyExplored(viewportHexes, visitedNearViewport) THEN "empty"
    ELSE "holes"

\* mutant of FogStatus: the banner text is set whenever no polygon is drawn
FogStatus_WheneverHidden(shape, count) ==
    IF shape \in {"degraded", "empty"}
    THEN <<"Tiles hidden: too many hexes", count>>
    ELSE NULL

\* `Tiles hidden: too many hexes (${viewportHexes.length})`, or null
FogStatus(shape, count) ==
    IF shape = "degraded"
    THEN <<"Tiles hidden: too many hexes", count>>
    ELSE NULL

\* mutant of NothingVisitedFog: no polygon is returned
NothingVisitedFog_None(displayRes) == <<>>

\* the polygons returned when nothing near the viewport is visited
NothingVisitedFog(displayRes) == << FogPolygon(displayRes, <<>>) >>

\* fogPolygons of each result of the fog useMemo
FogPolygons(shape, displayRes, visitedNearViewport) ==
    CASE shape = "outerOnly" -> NothingVisitedFog(displayRes)
      [] shape = "holes" ->
            FogWithHoles(displayRes, h3SetToMultiPolygon(visitedNearViewport))
      [] OTHER -> <<>>

\* the value of the fog useMemo; viewportHexes and visitedNearViewport are
\* the locals the result was computed from
FogValue(shape, displayRes, viewportHexes, visitedNearViewport) ==
    [shape |-> shape,
     fogPolygons |-> FogPolygons(shape, displayRes, visitedNearViewport),
     fogStatus |-> FogStatus(shape, Cardinality(viewportHexes)),
     displayRes |-> displayRes,
     viewportHexes |-> viewportHexes,
     visitedNearViewport |-> IF shape = "degraded" THEN {} ELSE visitedNearViewport]

\* the filter loop: the hexes of the superset that are in the visited set
NearViewport(viewportHexes, visitedSet) == viewportHexes \cap visitedSet

\* the fog useMemo from the cap check on, given the superset
FogResult(viewportHexes, displayRes, visitedList) ==
    FogValue(FogShape(viewportHexes,
                      NearViewport(viewportHexes, getVisitedAtRes(visitedList, displayRes))),
             displayRes, viewportHexes,
             NearViewport(viewportHexes, getVisitedAtRes(visitedList, displayRes)))

\* the fog useMemo after its assembler call returned a
FogAfterAssemble(a, r, displayRes, visitedList) ==
    [cache |-> a.cache, calls |-> a.calls,
     log |-> <<CallSummary(r, displayRes, HEX_OVERSCAN, a)>>,
     value |-> FogResult(a.hexes, displayRes, visitedList)]

FogAtRes(cache, calls, r, displayRes, visitedList) ==
    FogAfterAssemble(getHexesFromGridCache(cache, calls, r, displayRes, HEX_OVERSCAN),
                     r, displayRes, visitedList)

\* if (!region) return { fogPolygons: [], fogStatus: null, displayRes: null }
NoFog ==
    [shape |-> "none", fogPolygons |-> <<>>, fogStatus |-> NULL, displayRes |-> NULL,
     viewportHexes |-> {}, visitedNearViewport |-> {}]

\* The fog useMemo up to the choice of its result: the assembler call with
\* the overscan, the cap, the visited hexes near the viewport and the case.
\* `cache` and `calls` are the cache (and ghost) the call leaves behind.
computeFog(cache, calls, r, visitedList) ==
    IF r = NULL
    THEN [cache |-> cache, calls |-> calls, log |-> <<>>, value |-> NoFog]
    ELSE FogAtRes(cache, calls, r, getDisplayRes(r.latitudeDelta), visitedList)

-----------------------------------------------------------------------------
(* Prefetch                                                                *)

\* mutant of PanDirection: a movement equal to the threshold counts as a pan
PanDirection_Inclusive(prev, r) ==
    IF prev = NULL THEN [lat |-> 0, lng |-> 0]
    ELSE LET latDelta == r.latitude - prev.latitude
             lngDelta == r.longitude - prev.longitude
         IN  [lat |-> IF 10 * Abs(latDelta) >= r.latitudeDelta
                      THEN (IF latDelta > 0 THEN 1 ELSE -1) ELSE 0,
              lng |-> IF 10 * Abs(lngDelta) >= r.latitudeDelta
                      THEN (IF lngDelta > 0 THEN 1 ELSE -1) ELSE 0]

\* pan direction of the prefetch effect: -1, 0 or 1 per axis; the threshold
\* region.latitudeDelta * 0.1 is compared after multiplying both sides by 10
PanDirection(prev, r) ==
    IF prev = NULL THEN [lat |-> 0, lng |-> 0]
    ELSE LET latDelta == r.latitude - prev.latitude
             lngDelta == r.longitude - prev.longitude
         IN  [lat |-> IF 10 * Abs(latDelta) > r.latitudeDelta
                      THEN (IF latDelta > 0 THEN 1 ELSE -1) ELSE 0,
              lng |-> IF 10 * Abs(lngDelta) > r.latitudeDelta
                      THEN (IF lngDelta > 0 THEN 1 ELSE -1) ELSE 0]

\* mutant of OffsetRegion: the offset region lies three spans ahead
OffsetRegion_Far(r, direction) ==
    MkRegion(r.latitude + 3 * direction.lat * r.latitudeDelta,
             r.longitude + 3 * direction.lng * r.longitudeDelta,
             r.latitudeDelta * 2, r.longitudeDelta * 2, r.id)

\* mutant of OffsetRegion: the offset region keeps the spans of the viewport
OffsetRegion_NoDouble(r, direction) ==
    MkRegion(r.latitude + direction.lat * r.latitudeDelta,
             r.longitude + direction.lng * r.longitudeDelta,
             r.latitudeDelta, r.longitudeDelta, r.id)

\* the region prefetchInDirection asks for: one span ahead, spans doubled
OffsetRegion(r, direction) ==
    MkRegion(r.latitude + direction.lat * r.latitudeDelta,
             r.longitude + direction.lng * r.longitudeDelta,
             r.latitudeDelta * 2, r.longitudeDelta * 2, r.id)

prefetchInDirection(cache, calls, r, res, direction) ==
    getHexesFromGridCache(cache, calls, OffsetRegion(r, direction), res, 1)

\* the prefetch callback after its two assembler calls returned a and b
AfterDirectional(a, b, t) ==
    [cache |-> b.cache, calls |-> b.calls,
     log |-> <<CallSummary(t.region, t.displayRes, PREFETCH_EXPANSION, a),
               CallSummary(OffsetRegion(t.region, t.direction), t.displayRes, 1, b)>>]

\* the prefetch callback after the wide assembler call returned a
AfterWide(a, t) ==
    IF t.direction.lat # 0 \/ t.direction.lng # 0
    THEN AfterDirectional(a, prefetchInDirection(a.cache, a.calls, t.region,
                                                 t.displayRes, t.direction), t)
    ELSE [cache |-> a.cache, calls |-> a.calls,
          log |-> <<CallSummary(t.region, t.displayRes, PREFETCH_EXPANSION, a)>>]

\* mutant of RunPrefetch: the wide call uses the overscan of the fog
RunPrefetch_Narrow(cache, calls, t) ==
    AfterWide(getHexesFromGridCache(cache, calls, t.region, t.displayRes,
                                    HEX_OVERSCAN), t)

\* the body of the deferred prefetch callback: the cache (and ghosts) it
\* leaves behind
RunPrefetch(cache, calls, t) ==
    AfterWide(getHexesFromGridCache(cache, calls, t.region, t.displayRes,
                                    PREFETCH_EXPANSION), t)

-----------------------------------------------------------------------------
(* React commit: the render that follows a state change and its effects.   *)
(* A state change, the render it causes and the effects of that render are *)
(* one step.                                                               *)

ThrottleTimers == { t \in timers : t.kind = "throttle" }
PrefetchTimers == { t \in timers : t.kind = "prefetch" }

\* the render: the fog useMemo recomputes for [region, visited]
Commit(f) ==
    /\ fog' = f.value
    /\ hexGridCache' = f.cache
    /\ computeCalls' = f.calls
    /\ lastAssemble' = f.log

\* mutant of Render: the memo is computed from the region of the previous
\* render
Render_StaleRegion(newRegion, newVisited) ==
    Commit(computeFog(hexGridCache, computeCalls, region, newVisited))

Render(newRegion, newVisited) ==
    Commit(computeFog(hexGridCache, computeCalls, newRegion, newVisited))

\* mutant of PrefetchEffect: prevRegionRef is not updated
PrefetchEffect_KeepsPrev(newRegion, rest, id) ==
    /\ timers' = { t \in rest : t.id # effectTimer } \cup
                 { [id |-> id, kind |-> "prefetch",
                    due |-> now + PREFETCH_DELAY_MS,
                    region |-> newRegion,
                    displayRes |-> getDisplayRes(newRegion.latitudeDelta),
                    direction |-> PanDirection(prevRegionRef, newRegion)] }
    /\ prevRegionRef' = prevRegionRef
    /\ effectTimer' = id
    /\ nextTimerId' = id + 1
    /\ scheduled' = scheduled \cup {newRegion.id}

\* mutant of PrefetchEffect: the cleanup does not clear the previous timer
PrefetchEffect_NoCleanup(newRegion, rest, id) ==
    /\ timers' = rest \cup
                 { [id |-> id, kind |-> "prefetch",
                    due |-> now + PREFETCH_DELAY_MS,
                    region |-> newRegion,
                    displayRes |-> getDisplayRes(newRegion.latitudeDelta),
                    direction |-> PanDirection(prevRegionRef, newRegion)] }
    /\ prevRegionRef' = newRegion
    /\ effectTimer' = id
    /\ nextTimerId' = id + 1
    /\ scheduled' = scheduled \cup {newRegion.id}

\* mutant of PrefetchEffect: a prefetch is scheduled only when a pan
\* direction was detected
PrefetchEffect_OnlyWhenPanning(newRegion, rest, id) ==
    /\ timers' = { t \in rest : t.id # effectTimer } \cup
                 ( IF PanDirection(prevRegionRef, newRegion) = [lat |-> 0, lng |-> 0]
                   THEN {}
                   ELSE { [id |-> id, kind |-> "prefetch",
                           due |-> now + PREFETCH_DELAY_MS,
                           region |-> newRegion,
                           displayRes |-> getDisplayRes(newRegion.latitudeDelta),
                           direction |-> PanDirection(prevRegionRef, newRegion)] } )
    /\ prevRegionRef' = newRegion
    /\ effectTimer' = id
    /\ nextTimerId' = id + 1
    /\ scheduled' = IF PanDirection(prevRegionRef, newRegion) = [lat |-> 0, lng |-> 0]
                    THEN scheduled ELSE scheduled \cup {newRegion.id}

\* the prefetch useEffect for a changed region: the cleanup of the previous
\* effect clears its timer, the direction is taken against prevRegionRef,
\* prevRegionRef is updated and a new timer is set.  `rest` is the timer
\* queue the handler leaves, `id` the next free timer id.
PrefetchEffect(newRegion, rest, id) ==
    /\ timers' = { t \in rest : t.id # effectTimer } \cup
                 { [id |-> id, kind |-> "prefetch",
                    due |-> now + PREFETCH_DELAY_MS,
                    region |-> newRegion,
                    displayRes |-> getDisplayRes(newRegion.latitudeDelta),
                    direction |-> PanDirection(prevRegionRef, newRegion)] }
    /\ prevRegionRef' = newRegion
    /\ effectTimer' = id
    /\ nextTimerId' = id + 1
    /\ scheduled' = scheduled \cup {newRegion.id}

\* setRegion(newRegion) and the commit it causes
SetRegion(newRegion, newVisited, rest, id) ==
    /\ region' = newRegion
    /\ Render(newRegion, newVisited)
    /\ PrefetchEffect(newRegion, rest, id)

-----------------------------------------------------------------------------
(* Initial state: the component as constructed, before any event           *)

InitWith(events) ==
    /\ hexGridCache = <<>>
    /\ computeCalls = <<>>
    /\ region = NULL
    /\ loc = NULL
    /\ store = {}
    /\ visited = store
    /\ lastUpdateRef = 0
    /\ pendingRegionRef = NULL
    /\ timeoutRef = NoTimer
    /\ prevRegionRef = NULL
    /\ effectTimer = NoTimer
    /\ timers = {}
    /\ nextTimerId = 1
    /\ now = StartNow
    /\ fog = NoFog
    /\ notifyCount = 0
    /\ lastNotified = NULL
    /\ lastApply = [n |-> 0, id |-> 0, latest |-> 0, newest |-> 0, gap |-> 0]
    /\ budget = events
    /\ lastAssemble = <<>>
    /\ scheduled = {}
    /\ history = <<>>

Init == InitWith(MaxEvents)

-----------------------------------------------------------------------------
(* Operations                                                              *)

\* mutant of StartTracking: the hex is appended to the list in memory and
\* never written to the table
StartTracking_NoStore(p) ==
    /\ budget > 0
    /\ budget' = budget - 1
    /\ loc' = [latitude |-> p[1], longitude |-> p[2]]
    /\ store' = store
    /\ visited' = visited \cup { geoToH3(p[1], p[2], STORAGE_RES) }
    /\ SetRegion(MkRegion(p[1], p[2], INITIAL_DELTA, INITIAL_DELTA, 0),
                 visited \cup { geoToH3(p[1], p[2], STORAGE_RES) }, timers, nextTimerId)
    /\ UNCHANGED <<lastUpdateRef, pendingRegionRef, timeoutRef, now, notifyCount,
                   lastNotified, lastApply, history>>

\* startTracking, from the position fix to the refresh of the visited list:
\* setLoc, setRegion, addVisited, refreshVisited
StartTracking(p) ==
    /\ budget > 0
    /\ budget' = budget - 1
    /\ loc' = [latitude |-> p[1], longitude |-> p[2]]
    /\ store' = store \cup { geoToH3(p[1], p[2], STORAGE_RES) }
    /\ visited' = store'
    /\ SetRegion(MkRegion(p[1], p[2], INITIAL_DELTA, INITIAL_DELTA, 0),
                 store \cup { geoToH3(p[1], p[2], STORAGE_RES) }, timers, nextTimerId)
    /\ UNCHANGED <<lastUpdateRef, pendingRegionRef, timeoutRef, now, notifyCount,
                   lastNotified, lastApply, history>>

\* updateRegion when at least THROTTLE_MS have passed since the last update
UpdateRegionImmediate(v) ==
    LET newRegion == MkRegion(v[1], v[2], v[3], v[4], notifyCount + 1)
        elapsed == now - lastUpdateRef
    IN  /\ loc # NULL
        /\ budget > 0
        /\ budget' = budget - 1
        /\ elapsed >= THROTTLE_MS
        /\ notifyCount' = notifyCount + 1
        /\ lastNotified' = newRegion
        /\ lastUpdateRef' = now
        /\ lastApply' = [n |-> lastApply.n + 1, id |-> newRegion.id,
                         latest |-> notifyCount + 1,
                         newest |-> IF lastApply.newest > newRegion.id
                                    THEN lastApply.newest ELSE newRegion.id,
                         gap |-> elapsed]
        /\ SetRegion(newRegion, visited, timers, nextTimerId)
        /\ UNCHANGED <<loc, visited, store, pendingRegionRef, timeoutRef, now,
                       history>>

\* mutant of UpdateRegionDeferred: a timer is set for every deferred viewport
UpdateRegionDeferred_TimerEach(v) ==
    LET newRegion == MkRegion(v[1], v[2], v[3], v[4], notifyCount + 1)
        elapsed == now - lastUpdateRef
    IN  /\ loc # NULL
        /\ budget > 0
        /\ budget' = budget - 1
        /\ elapsed < THROTTLE_MS
        /\ notifyCount' = notifyCount + 1
        /\ lastNotified' = newRegion
        /\ pendingRegionRef' = newRegion
        /\ timers' = timers \cup
                { [id |-> nextTimerId, kind |-> "throttle",
                   due |-> now + (THROTTLE_MS - elapsed)] }
        /\ timeoutRef' = nextTimerId
        /\ nextTimerId' = nextTimerId + 1
        /\ UNCHANGED <<hexGridCache, computeCalls, lastAssemble, region, loc, visited, store,
                       lastUpdateRef, prevRegionRef, scheduled, effectTimer, now, fog,
                       lastApply, history>>

\* updateRegion within THROTTLE_MS of the last update: the viewport is kept
\* in pendingRegionRef and a timer is set unless one is outstanding
UpdateRegionDeferred(v) ==
    LET newRegion == MkRegion(v[1], v[2], v[3], v[4], notifyCount + 1)
        elapsed == now - lastUpdateRef
    IN  /\ loc # NULL
        /\ budget > 0
        /\ budget' = budget - 1
        /\ elapsed < THROTTLE_MS
        /\ notifyCount' = notifyCount + 1
        /\ lastNotified' = newRegion
        /\ pendingRegionRef' = newRegion
        /\ IF timeoutRef = NoTimer
           THEN /\ timers' = timers \cup
                       { [id |-> nextTimerId, kind |-> "throttle",
                          due |-> now + (THROTTLE_MS - elapsed)] }
                /\ timeoutRef' = nextTimerId
                /\ nextTimerId' = nextTimerId + 1
           ELSE UNCHANGED <<timers, timeoutRef, nextTimerId>>
        /\ UNCHANGED <<hexGridCache, computeCalls, lastAssemble, region, loc, visited, store,
                       lastUpdateRef, prevRegionRef, scheduled, effectTimer, now, fog,
                       lastApply, history>>

\* the callback of the throttle timer
ThrottleTimerFires(t) ==
    /\ t \in ThrottleTimers
    /\ now >= t.due
    /\ timeoutRef' = NoTimer
    /\ IF pendingRegionRef # NULL
       THEN /\ lastUpdateRef' = now
            /\ lastApply' = [n |-> lastApply.n + 1, id |-> pendingRegionRef.id,
                             latest |-> notifyCount,
                             newest |-> IF lastApply.newest > pendingRegionRef.id
                                        THEN lastApply.newest ELSE pendingRegionRef.id,
                             gap |-> now - lastUpdateRef]
            /\ pendingRegionRef' = NULL
            /\ SetRegion(pendingRegionRef, visited, timers \ {t}, nextTimerId)
       ELSE /\ timers' = timers \ {t}
            /\ UNCHANGED <<hexGridCache, computeCalls, lastAssemble, region, lastUpdateRef,
                           pendingRegionRef, prevRegionRef, scheduled, effectTimer,
                           nextTimerId, fog, lastApply>>
    /\ UNCHANGED <<loc, visited, store, now, notifyCount, lastNotified, budget,
                   history>>

Prefetched(a) ==
    /\ hexGridCache' = a.cache
    /\ computeCalls' = a.calls
    /\ lastAssemble' = a.log

\* mutant of PrefetchTimerFires: the callback also reloads the visited list
PrefetchTimerFires_Refreshes(t) ==
    /\ t \in PrefetchTimers
    /\ now >= t.due
    /\ timers' = timers \ {t}
    /\ visited' = store
    /\ Prefetched(RunPrefetch(hexGridCache, computeCalls, t))
    /\ UNCHANGED <<region, loc, store, lastUpdateRef, pendingRegionRef,
                   timeoutRef, prevRegionRef, scheduled, effectTimer, nextTimerId, now, fog,
                   notifyCount, lastNotified, lastApply, budget, history>>

\* the callback of the prefetch timer: the wide prefetch, then the
\* directional one when a pan direction was detected
PrefetchTimerFires(t) ==
    /\ t \in PrefetchTimers
    /\ now >= t.due
    /\ timers' = timers \ {t}
    /\ Prefetched(RunPrefetch(hexGridCache, computeCalls, t))
    /\ UNCHANGED <<region, loc, visited, store, lastUpdateRef, pendingRegionRef,
                   timeoutRef, prevRegionRef, scheduled, effectTimer, nextTimerId, now, fog,
                   notifyCount, lastNotified, lastApply, budget, history>>

\* the background location task: addVisited for a position fix
BackgroundLocation(p) ==
    /\ budget > 0
    /\ budget' = budget - 1
    /\ store' = store \cup { geoToH3(p[1], p[2], STORAGE_RES) }
    /\ UNCHANGED <<hexGridCache, computeCalls, lastAssemble, region, loc, visited, lastUpdateRef,
                   pendingRegionRef, timeoutRef, prevRegionRef, scheduled, effectTimer, timers,
                   nextTimerId, now, fog, notifyCount, lastNotified, lastApply,
                   history>>

\* the app returns to the foreground: refreshVisited, and the render that
\* the new visited list causes
RefreshVisited ==
    /\ visited # store
    /\ visited' = store
    /\ Render(region, store)
    /\ UNCHANGED <<region, loc, store, lastUpdateRef, pendingRegionRef, timeoutRef,
                   prevRegionRef, scheduled, effectTimer, timers, nextTimerId, now,
                   notifyCount, lastNotified, lastApply, budget, history>>

\* time passes
Tick ==
    /\ budget > 0
    /\ budget' = budget - 1
    /\ now' = now + TickMs
    /\ UNCHANGED <<hexGridCache, computeCalls, lastAssemble, region, loc, visited, store,
                   lastUpdateRef, pendingRegionRef, timeoutRef, prevRegionRef, scheduled,
                   effectTimer, timers, nextTimerId, fog, notifyCount,
                   lastNotified, lastApply, history>>

Next ==
    \/ \E p \in Positions : StartTracking(p)
    \/ \E v \in Viewports : UpdateRegionImmediate(v)
    \/ \E v \in Viewports : UpdateRegionDeferred(v)
    \/ \E t \in timers : ThrottleTimerFires(t)
    \/ \E t \in timers : PrefetchTimerFires(t)
    \/ \E p \in BackgroundPositions : BackgroundLocation(p)
    \/ RefreshVisited
    \/ Tick

Spec == Init /\ [][Next]_vars

-----------------------------------------------------------------------------
(* The assembler on its own: calls of getHexesFromGridCache with inputs    *)
(* drawn from AssemblerInputs, in any order, on the one shared cache.      *)

\* <<latitude, longitude, latitudeDelta, longitudeDelta, res, multiplier>>:
\* the street-level view of the program model and its 4x and 6x expansions,
\* a neighbouring small view, a view across the equator and the prime
\* meridian at three resolutions, and a view of zero span
AssemblerInputs ==
    { <<37420, -88310, 10, 10, 10, 1>>, <<37420, -88310, 10, 10, 10, 4>>,
      <<37420, -88310, 10, 10, 10, 6>>, <<37432, -88315, 3, 2, 10, 4>>,
      <<3, -4, 10, 10, 10, 1>>, <<3, -4, 10, 10, 9, 1>>,
      <<3, -4, 10, 10, 5, 2>>, <<37420, -88310, 0, 0, 10, 1>>,
      <<37420, -88310, 40, 2, 9, 1>> }

InputRegion(inp) == MkRegion(inp[1], inp[2], inp[3], inp[4], 0)

Assembled(a, inp) ==
    /\ hexGridCache' = a.cache
    /\ computeCalls' = a.calls
    /\ lastAssemble' = <<CallSummary(InputRegion(inp), inp[5], inp[6], a)>>
    /\ history' = Append(history, CallSummary(InputRegion(inp), inp[5], inp[6], a))

AssembleCall(inp) ==
    /\ budget > 0
    /\ budget' = budget - 1
    /\ Assembled(getHexesFromGridCache(hexGridCache, computeCalls,
                                       InputRegion(inp), inp[5], inp[6]), inp)
    /\ UNCHANGED <<region, loc, visited, store, lastUpdateRef, pendingRegionRef,
                   timeoutRef, prevRegionRef, scheduled, effectTimer, timers, nextTimerId,
                   now, fog, notifyCount, lastNotified, lastApply>>

InitAssembler == InitWith(MaxCalls)

NextAssembler == \E inp \in AssemblerInputs : AssembleCall(inp)

SpecAssembler == InitAssembler /\ [][NextAssembler]_vars

-----------------------------------------------------------------------------
(* Fog harness: the fog computation from the cap check on, applied once to *)
(* a hex superset and a visited list, and its partially explored branch    *)
(* applied once to an answer of h3SetToMultiPolygon.                       *)

\* the hexes of a block of rows x cols grid cells: the superset the assembler
\* returns for a region that enumerates these cells
CellBlockHexes(res, rows, cols) ==
    UNION { computeGridCellHexes(a, b, res) : a \in 0..(rows - 1), b \in 0..(cols - 1) }

\* a visited hex (rows of the table are hexes of the storage resolution)
Hx(i, j) == <<STORAGE_RES, i, j>>

\* the storage hexes at the centres of the hexes of a block
CentreHexes(res, rows, cols) ==
    { geoToH3(HexCentre(h).lat, HexCentre(h).lng, STORAGE_RES) :
        h \in CellBlockHexes(res, rows, cols) }

\* Visited lists by name: nothing; one hex; two adjacent hexes; two hexes
\* apart; the six hexes around Hx(1, 1); a hex far away; one hex inside and
\* one far away; two storage hexes with the same parent; every hex.
VisitedList(name, res, rows, cols) ==
    CASE name = "none" -> {}
      [] name = "one" -> { Hx(1, 1) }
      [] name = "adjacent" -> { Hx(1, 1), Hx(1, 2) }
      [] name = "apart" -> { Hx(0, 0), Hx(2, 4) }
      [] name = "around" -> { Hx(1, 0), Hx(1, 2), Hx(0, 1), Hx(0, 2), Hx(2, 1), Hx(2, 2) }
      [] name = "far" -> { Hx(40, 40) }
      [] name = "oneAndFar" -> { Hx(1, 1), Hx(40, 40) }
      [] name = "siblings" -> { Hx(0, 0), Hx(0, -1) }
      [] name = "all" -> CentreHexes(res, rows, cols)

VisitedNames ==
    { "none", "one", "adjacent", "apart", "around", "far", "oneAndFar",
      "siblings", "all" }

\* Supersets: small blocks at the storage resolution and at resolution 9,
\* a block of exactly HEX_CAP hexes (3 x 714 cells) and one of HEX_CAP + 1
\* hexes (56 x 44 cells).
FogInputs ==
    [res : {STORAGE_RES}, rows : {1}, cols : {2}, visitedList : VisitedNames]
    \cup [res : {9}, rows : {1}, cols : {1}, visitedList : VisitedNames]
    \cup [res : {STORAGE_RES}, rows : {3}, cols : {714}, visitedList : {"none", "one", "far"}]
    \cup [res : {STORAGE_RES}, rows : {56}, cols : {44}, visitedList : {"none", "one", "all"}]

\* the { fogPolygons, fogStatus, displayRes } a fog value returns
FogReturn(value) ==
    [fogPolygons |-> value.fogPolygons, fogStatus |-> value.fogStatus,
     displayRes |-> value.displayRes]

\* ghost: what the fog computation was given and what it returned;
\* visitedInside are the resolved visited hexes that lie in the superset
FogCallSummary(inp, viewportHexes, visitedList) ==
    [kind |-> "fog", input |-> inp,
     hexCount |-> Cardinality(viewportHexes),
     resolved |-> Cardinality(getVisitedAtRes(visitedList, inp.res)),
     visitedAtRes |-> getVisitedAtRes(visitedList, inp.res),
     visitedInside |-> { h \in getVisitedAtRes(visitedList, inp.res) : h \in viewportHexes },
     result |-> FogReturn(FogResult(viewportHexes, inp.res, visitedList))]

FogCall(inp) ==
    /\ history = <<>>
    /\ history' = << FogCallSummary(inp, CellBlockHexes(inp.res, inp.rows, inp.cols),
                                    VisitedList(inp.visitedList, inp.res, inp.rows, inp.cols)) >>
    /\ UNCHANGED <<hexGridCache, computeCalls, region, loc, visited, store,
                   lastUpdateRef, pendingRegionRef, timeoutRef, prevRegionRef,
                   effectTimer, timers, nextTimerId, now, fog, notifyCount,
                   lastNotified, lastApply, budget, lastAssemble, scheduled>>

\* Answers of h3SetToMultiPolygon handed to the hole builder: a first polygon
\* whose outer ring is any list of up to MaxRingLen vertices out of three,
\* with or without an inner ring, followed or not by a second polygon.
RingVertices == { <<0, 0>>, <<0, 3>>, <<3, 0>> }

RingsUpTo(n) == UNION { [1..k -> RingVertices] : k \in 0..n }

InnerRing == << <<1, 1>>, <<1, 2>>, <<2, 1>>, <<1, 1>> >>

SecondPolygon == << << <<5, 5>>, <<5, 6>>, <<6, 6>>, <<6, 5>> >>, InnerRing >>

MultiInputs ==
    { <<p>> \o tail :
        p \in { <<r>> : r \in RingsUpTo(MaxRingLen) }
              \cup { <<r, InnerRing>> : r \in RingsUpTo(MaxRingLen) },
        tail \in { <<>>, <<SecondPolygon>> } }

PartialFogCall(displayRes, visitedMulti) ==
    /\ history = <<>>
    /\ history' = << [kind |-> "partial", multi |-> visitedMulti,
                      result |-> [fogPolygons |-> FogWithHoles(displayRes, visitedMulti),
                                  fogStatus |-> NULL, displayRes |-> displayRes]] >>
    /\ UNCHANGED <<hexGridCache, computeCalls, region, loc, visited, store,
                   lastUpdateRef, pendingRegionRef, timeoutRef, prevRegionRef,
                   effectTimer, timers, nextTimerId, now, fog, notifyCount,
                   lastNotified, lastApply, budget, lastAssemble, scheduled>>

InitFog == InitWith(0)

NextFog ==
    \/ \E inp \in FogInputs : FogCall(inp)
    \/ \E visitedMulti \in MultiInputs : PartialFogCall(STORAGE_RES, visitedMulti)

SpecFog == InitFog /\ [][NextFog]_vars

-----------------------------------------------------------------------------
(* Resolution harness: getDisplayRes applied to spans at and around the    *)
(* thresholds of its table.                                                *)

Thresholds == { 40, 100, 300, 900, 2000, 4000, 10000, 22000, 50000, 90000 }

Spans ==
    { t + d : t \in Thresholds, d \in {-1, 0, 1} } \cup { -5, 0, 1, 180000, 360000 }

ResCall(span) ==
    /\ Len(history) < MaxResCalls
    /\ history' = Append(history, [span |-> span, res |-> getDisplayRes(span)])
    /\ UNCHANGED <<hexGridCache, computeCalls, region, loc, visited, store,
                   lastUpdateRef, pendingRegionRef, timeoutRef, prevRegionRef,
                   effectTimer, timers, nextTimerId, now, fog, notifyCount,
                   lastNotified, lastApply, budget, lastAssemble, scheduled>>

InitRes == InitWith(0)

NextRes == \E span \in Spans : ResCall(span)

SpecRes == InitRes /\ [][NextRes]_vars

-----------------------------------------------------------------------------
(* Prefetch harness: the prefetch effect and its deferred callback, run    *)
(* once for a previous and a current region on the empty cache.            *)

\* how far the centre moved on an axis, around the threshold thr: far beyond
\* it, just beyond it, exactly on it and not at all, in both directions
Moves(thr) == { -20 * thr, -(thr + 1), -thr, 0, thr, thr + 1, 20 * thr }

\* <<latitudeDelta, longitudeDelta>> of the street-level views: square, wide
\* and tall
PanSpans == { <<10, 10>>, <<10, 30>>, <<30, 10>> }

\* <<hasPrev, prevLatitude, prevLongitude, latitude, longitude,
\*   latitudeDelta, longitudeDelta>>: pans of a street-level view by every
\* pair of moves, the first region of a session, and pans of a view of one
\* degree from the origin
PanInputs ==
    UNION { { <<TRUE, 37420 - dLat, -88310 - dLng, 37420, -88310, s[1], s[2]>> :
                dLat \in Moves(s[1] \div 10), dLng \in Moves(s[1] \div 10) } :
            s \in PanSpans }
    \cup { <<FALSE, 0, 0, 37420, -88310, s[1], s[2]>> : s \in PanSpans }
    \cup { <<TRUE, 0, 0, 500, 0, 1000, 1000>>, <<TRUE, 0, 0, 100, 0, 1000, 1000>>,
           <<TRUE, 0, 0, 0, -101, 1000, 1000>> }

\* prevRegionRef.current before the effect runs: null on the first region
PrevOf(inp) ==
    IF inp[1] THEN MkRegion(inp[2], inp[3], inp[6], inp[7], 0) ELSE NULL

CurOf(inp) == MkRegion(inp[4], inp[5], inp[6], inp[7], 1)

\* what the effect hands to its deferred callback: the region, its display
\* resolution and the direction detected against the previous region
PrefetchTask(prev, r) ==
    [region |-> r, displayRes |-> getDisplayRes(r.latitudeDelta),
     direction |-> PanDirection(prev, r)]

PrefetchDone(p, t, prev) ==
    /\ hexGridCache' = p.cache
    /\ computeCalls' = p.calls
    /\ lastAssemble' = p.log
    /\ prevRegionRef' = t.region
    /\ history' = <<[prev |-> prev, region |-> t.region,
                     direction |-> t.direction, log |-> p.log]>>

PrefetchStep(t, prev) ==
    PrefetchDone(RunPrefetch(hexGridCache, computeCalls, t), t, prev)

PrefetchRun(inp) ==
    /\ history = <<>>
    /\ PrefetchStep(PrefetchTask(PrevOf(inp), CurOf(inp)), PrevOf(inp))
    /\ UNCHANGED <<region, loc, visited, store, lastUpdateRef, pendingRegionRef,
                   timeoutRef, effectTimer, timers, nextTimerId, now, fog,
                   notifyCount, lastNotified, lastApply, budget, scheduled>>

InitPrefetch == InitWith(0)

NextPrefetch == \E inp \in PanInputs : PrefetchRun(inp)

SpecPrefetch == InitPrefetch /\ [][NextPrefetch]_vars

-----------------------------------------------------------------------------
(* The assembler on viewports that are not finite.  A JavaScript number is *)
(* modelled as a record: a finite value, NaN, or an infinity with a sign.  *)

Fin(n) == [k |-> "fin", v |-> n]
NaN == [k |-> "nan", v |-> 0]
PosInf == [k |-> "inf", v |-> 1]
NegInf == [k |-> "inf", v |-> -1]

IsFin(x) == x.k = "fin"

\* a + b: NaN spreads, Infinity + -Infinity is NaN, an infinity absorbs
XAdd(a, b) ==
    IF a.k = "nan" \/ b.k = "nan" THEN NaN
    ELSE IF a.k = "inf" /\ b.k = "inf" THEN (IF a.v = b.v THEN a ELSE NaN)
    ELSE IF a.k = "inf" THEN a
    ELSE IF b.k = "inf" THEN b
    ELSE Fin(a.v + b.v)

\* -a
XNeg(a) == [a EXCEPT !.v = -@]

\* a * n for a positive finite n
XScale(a, n) == IF IsFin(a) THEN Fin(a.v * n) ELSE a

\* mutant of XFloorDiv: a value that is not finite is coerced to 0, as
\* (a / d) | 0 coerces it
XFloorDiv_Coerce(a, d) == IF IsFin(a) THEN Fin(FloorDiv(a.v, d)) ELSE Fin(0)

\* Math.floor(a / d) for a positive finite d: NaN and the infinities are
\* their own quotient and their own floor
XFloorDiv(a, d) == IF IsFin(a) THEN Fin(FloorDiv(a.v, d)) ELSE a

\* a <= b: false as soon as one side is NaN
XLeq(a, b) ==
    /\ a.k # "nan"
    /\ b.k # "nan"
    /\ IF IsFin(a) /\ IsFin(b) THEN a.v <= b.v
       ELSE (IF IsFin(a) THEN 0 ELSE a.v) <= (IF IsFin(b) THEN 0 ELSE b.v)

\* the corner cells of getGridCellsForRegion for a region of such numbers
CellRangeX(x, res, expansionMultiplier) ==
    LET pad == PadOf(res)
        cellSize == CellSizeOf(res)
        expandedLatDelta == XScale(x.latitudeDelta, expansionMultiplier)
        expandedLngDelta == XScale(x.longitudeDelta, expansionMultiplier)
    IN  [minLatCell |-> XFloorDiv(XAdd(XAdd(XScale(x.latitude, 2), XNeg(expandedLatDelta)),
                                       Fin(-2 * pad)), 2 * cellSize),
         maxLatCell |-> XFloorDiv(XAdd(XAdd(XScale(x.latitude, 2), expandedLatDelta),
                                       Fin(2 * pad)), 2 * cellSize),
         minLngCell |-> XFloorDiv(XAdd(XAdd(XScale(x.longitude, 2), XNeg(expandedLngDelta)),
                                       Fin(-2 * pad)), 2 * cellSize),
         maxLngCell |-> XFloorDiv(XAdd(XAdd(XScale(x.longitude, 2), expandedLngDelta),
                                       Fin(2 * pad)), 2 * cellSize)]

\* The two nested loops on such corner cells.  A loop whose test is false at
\* once pushes nothing; a loop over a range with an infinite end never ends
\* (-Infinity + 1 is -Infinity, and no finite counter reaches Infinity), so
\* the function does not return; finite corners give the cells of the range.
LoopsOf(c) ==
    IF ~XLeq(c.minLatCell, c.maxLatCell)
    THEN [outcome |-> "returns", cells |-> <<>>]
    ELSE IF ~IsFin(c.minLatCell) \/ ~IsFin(c.maxLatCell)
    THEN [outcome |-> "diverges", cells |-> <<>>]
    ELSE IF ~XLeq(c.minLngCell, c.maxLngCell)
    THEN [outcome |-> "returns", cells |-> <<>>]
    ELSE IF ~IsFin(c.minLngCell) \/ ~IsFin(c.maxLngCell)
    THEN [outcome |-> "diverges", cells |-> <<>>]
    ELSE [outcome |-> "returns",
          cells |-> CellsOfRange([minLatCell |-> c.minLatCell.v,
                                  maxLatCell |-> c.maxLatCell.v,
                                  minLngCell |-> c.minLngCell.v,
                                  maxLngCell |-> c.maxLngCell.v])]

getGridCellsForRegionX(x, res, expansionMultiplier) ==
    LoopsOf(CellRangeX(x, res, expansionMultiplier))

\* getHexesFromGridCache after its call of getGridCellsForRegion: the loop
\* over the cells runs only if that call returned
AfterEnumeration(e, cache, calls, res) ==
    [outcome |-> e.outcome,
     result |-> IF e.outcome = "returns"
                THEN AssembleLoop(e.cells, 1, res,
                                  [cache |-> cache, calls |-> calls, hexes |-> {},
                                   cacheHits |-> 0, cacheMisses |-> 0])
                ELSE [cache |-> cache, calls |-> calls, hexes |-> {},
                      cacheHits |-> 0, cacheMisses |-> 0]]

getHexesFromGridCacheX(cache, calls, x, res, expansionMultiplier) ==
    AfterEnumeration(getGridCellsForRegionX(x, res, expansionMultiplier),
                     cache, calls, res)

\* viewports with a field that is not finite: <<latitude, longitude,
\* latitudeDelta, longitudeDelta, res, multiplier>>
MalformedViewports ==
    { <<NaN, Fin(-88310), Fin(10), Fin(10)>>,
      <<Fin(37420), NaN, Fin(10), Fin(10)>>,
      <<Fin(37420), Fin(-88310), NaN, Fin(10)>>,
      <<Fin(37420), Fin(-88310), Fin(10), NaN>>,
      <<NaN, NaN, NaN, NaN>>,
      <<PosInf, Fin(-88310), Fin(10), Fin(10)>>,
      <<NegInf, Fin(-88310), Fin(10), Fin(10)>>,
      <<Fin(37420), PosInf, Fin(10), Fin(10)>>,
      <<Fin(37420), Fin(-88310), PosInf, Fin(10)>>,
      <<Fin(37420), Fin(-88310), Fin(10), PosInf>>,
      <<PosInf, Fin(-88310), PosInf, Fin(10)>>,
      <<Fin(37420), NegInf, Fin(10), PosInf>> }

MalformedInputs ==
    { <<v[1], v[2], v[3], v[4], res, m>> :
        v \in MalformedViewports, res \in {10, 9}, m \in {1, HEX_OVERSCAN} }

\* finite calls that fill the cache before and between the malformed ones
WarmInputs ==
    { <<37420, -88310, 10, 10, 10, 1>>, <<3, -4, 10, 10, 9, 1>>,
      <<37420, -88310, 40, 2, 9, 1>> }

RegionX(inp) ==
    [latitude |-> inp[1], longitude |-> inp[2],
     latitudeDelta |-> inp[3], longitudeDelta |-> inp[4]]

\* the call that did not return keeps the thread: nothing runs after it
Hung == history # <<>> /\ history[1].outcome = "diverges"

MalformedDone(a, inp) ==
    /\ hexGridCache' = a.result.cache
    /\ computeCalls' = a.result.calls
    /\ history' = <<[input |-> inp, outcome |-> a.outcome,
                     hexes |-> a.result.hexes,
                     cacheHits |-> a.result.cacheHits,
                     cacheMisses |-> a.result.cacheMisses]>>

MalformedCall(inp) ==
    /\ budget > 0
    /\ ~Hung
    /\ budget' = budget - 1
    /\ MalformedDone(getHexesFromGridCacheX(hexGridCache, computeCalls,
                                            RegionX(inp), inp[5], inp[6]), inp)
    /\ UNCHANGED <<region, loc, visited, store, lastUpdateRef, pendingRegionRef,
                   timeoutRef, prevRegionRef, scheduled, effectTimer, timers,
                   nextTimerId, now, fog, notifyCount, lastNotified, lastApply,
                   lastAssemble>>

WarmDone(a) ==
    /\ hexGridCache' = a.cache
    /\ computeCalls' = a.calls

WarmCall(inp) ==
    /\ budget > 0
    /\ ~Hung
    /\ budget' = budget - 1
    /\ WarmDone(getHexesFromGridCache(hexGridCache, computeCalls,
                                      InputRegion(inp), inp[5], inp[6]))
    /\ UNCHANGED <<region, loc, visited, store, lastUpdateRef, pendingRegionRef,
                   timeoutRef, prevRegionRef, scheduled, effectTimer, timers,
                   nextTimerId, now, fog, notifyCount, lastNotified, lastApply,
                   lastAssemble, history>>

InitMalformed == InitWith(MaxCalls)

NextMalformed ==
    \/ \E inp \in WarmInputs : WarmCall(inp)
    \/ \E inp \in MalformedInputs : MalformedCall(inp)

SpecMalformed == InitMalformed /\ [][NextMalformed]_vars

-----------------------------------------------------------------------------
(* The fog computation with its diagnostics: fog computations one after    *)
(* the other on the shared cache, each with the time it measured for       *)
(* itself.                                                                 *)

\* if (totalTime > 20) console.warn(...): only the results "nothing visited"
\* and "partly explored" measure the total time
FogWarns(shape, totalTime) ==
    shape \in {"outerOnly", "holes"} /\ totalTime > FOG_BUDGET_MS

\* mutant of FogOutcome: a computation over the budget returns no polygon
FogOutcome_DropWhenSlow(f, totalTime) ==
    [returned |-> IF totalTime > FOG_BUDGET_MS
                  THEN [fogPolygons |-> <<>>, fogStatus |-> NULL,
                        displayRes |-> f.value.displayRes]
                  ELSE FogReturn(f.value),
     warned |-> FogWarns(f.value.shape, totalTime),
     cacheHits |-> f.log[1].cacheHits,
     cacheMisses |-> f.log[1].cacheMisses]

\* what a fog computation that measured totalTime for itself gives: the value
\* it returns and what it reports on the console (whether it warns, and the
\* hit and miss counts the warning prints)
FogOutcome(f, totalTime) ==
    [returned |-> FogReturn(f.value),
     warned |-> FogWarns(f.value.shape, totalTime),
     cacheHits |-> f.log[1].cacheHits,
     cacheMisses |-> f.log[1].cacheMisses]

\* total times performance.now() can measure: under, on and over the budget
ElapsedTimes == { 5, FOG_BUDGET_MS, FOG_BUDGET_MS + 1 }

\* visited lists: nothing, and the hex of the centre of the street-level view
DiagVisited == { {}, { geoToH3(37420, -88310, STORAGE_RES) } }

FogComputed(f, r, visitedList, totalTime) ==
    /\ hexGridCache' = f.cache
    /\ computeCalls' = f.calls
    /\ lastAssemble' = f.log
    /\ history' = Append(history, [region |-> r, visitedList |-> visitedList,
                                   totalTime |-> totalTime,
                                   outcome |-> FogOutcome(f, totalTime)])

FogComputation(v, visitedList, totalTime) ==
    /\ Len(history) < MaxFogCalls
    /\ FogComputed(computeFog(hexGridCache, computeCalls,
                              MkRegion(v[1], v[2], v[3], v[4], 0), visitedList),
                   MkRegion(v[1], v[2], v[3], v[4], 0), visitedList, totalTime)
    /\ UNCHANGED <<region, loc, visited, store, lastUpdateRef, pendingRegionRef,
                   timeoutRef, prevRegionRef, scheduled, effectTimer, timers,
                   nextTimerId, now, fog, notifyCount, lastNotified, lastApply,
                   budget>>

InitDiag == InitWith(0)

NextDiag ==
    \E v \in Viewports, visitedList \in DiagVisited, totalTime \in ElapsedTimes :
        FogComputation(v, visitedList, totalTime)

SpecDiag == InitDiag /\ [][NextDiag]_vars

-----------------------------------------------------------------------------
(* Warm-ahead harness: the deferred prefetch of a viewport fires on the    *)
(* empty cache, then the fog of a nearby viewport is computed.             *)

\* <<latitude, longitude, latitudeDelta, longitudeDelta>> of the viewport
\* the prefetch is for
WarmViewports ==
    { <<37420, -88310, 10, 10>>, <<37420, -88310, 30, 10>>, <<3, -4, 10, 30>> }

\* how far the next viewport lies from it on an axis of span d: up to one
\* span, and just beyond
WarmOffsets(d) == { -(d + 1), -d, -1, 0, 1, d, d + 1 }

WarmPrefetchDone(p, t) ==
    /\ hexGridCache' = p.cache
    /\ computeCalls' = p.calls
    /\ lastAssemble' = p.log
    /\ prevRegionRef' = t.region
    /\ history' = <<[kind |-> "prefetch", region |-> t.region, log |-> p.log]>>

WarmPrefetch(v) ==
    /\ history = <<>>
    /\ WarmPrefetchDone(RunPrefetch(hexGridCache, computeCalls,
                                    PrefetchTask(NULL, MkRegion(v[1], v[2], v[3], v[4], 1))),
                        PrefetchTask(NULL, MkRegion(v[1], v[2], v[3], v[4], 1)))
    /\ UNCHANGED <<region, loc, visited, store, lastUpdateRef, pendingRegionRef,
                   timeoutRef, effectTimer, timers, nextTimerId, now, fog,
                   notifyCount, lastNotified, lastApply, budget, scheduled>>

WarmFogDone(f, r) ==
    /\ hexGridCache' = f.cache
    /\ computeCalls' = f.calls
    /\ lastAssemble' = f.log
    /\ history' = Append(history, [kind |-> "fog", region |-> r, log |-> f.log])

\* the fog computation for the next viewport r
WarmFog(r) ==
    /\ Len(history) = 1
    /\ WarmFogDone(computeFog(hexGridCache, computeCalls, r, {}), r)
    /\ UNCHANGED <<region, loc, visited, store, lastUpdateRef, pendingRegionRef,
                   timeoutRef, prevRegionRef, effectTimer, timers, nextTimerId, now,
                   fog, notifyCount, lastNotified, lastApply, budget, scheduled>>

\* the viewport moved by (dLat, dLng), with the same spans
MovedBy(r, dLat, dLng) ==
    MkRegion(r.latitude + dLat, r.longitude + dLng,
             r.latitudeDelta, r.longitudeDelta, 2)

InitWarm == InitWith(0)

NextWarm ==
    \/ \E v \in WarmViewports : WarmPrefetch(v)
    \/ /\ Len(history) = 1
       /\ \E dLat \in WarmOffsets(history[1].region.latitudeDelta),
             dLng \in WarmOffsets(history[1].region.longitudeDelta) :
               WarmFog(MovedBy(history[1].region, dLat, dLng))

SpecWarm == InitWarm /\ [][NextWarm]_vars

-----------------------------------------------------------------------------
(* Path replay: the pathSegments useMemo for a time range (or none) and    *)
(* the number of location points the range selects.                        *)

Min(a, b) == IF a < b THEN a ELSE b
Max(a, b) == IF a > b THEN a ELSE b

\* const numSegments = Math.min(points.length - 1, 50)
NumSegments(n) == Min(n - 1, MAX_SEGMENTS)

\* const step = Math.max(1, Math.floor((points.length - 1) / numSegments))
SegmentStep(n) == Max(1, (n - 1) \div NumSegments(n))

\* The segments of n points (indices 0..n-1): the loop starts a segment at
\* i = 0, step, 2*step, ... while i < n - 1, from point i to point
\* min(i + step, n - 1); the opacity of a segment is a function of
\* i / (n - 1), kept here as the pair <<i, n - 1>>.
SegmentsOf(n) ==
    [k \in 1..CeilDiv(n - 1, SegmentStep(n)) |->
        [first |-> (k - 1) * SegmentStep(n),
         last |-> Min((k - 1) * SegmentStep(n) + SegmentStep(n), n - 1),
         progress |-> <<(k - 1) * SegmentStep(n), n - 1>>]]

\* hasRange: pathTimeRange is not null; n: the points of the range
pathSegments(hasRange, n) ==
    IF ~hasRange THEN <<>>
    ELSE IF n < 2 THEN <<>>
    ELSE SegmentsOf(n)

PathCall(hasRange, n) ==
    /\ history = <<>>
    /\ history' = <<[hasRange |-> hasRange, points |-> n,
                     segments |-> pathSegments(hasRange, n)]>>
    /\ UNCHANGED <<hexGridCache, computeCalls, region, loc, visited, store,
                   lastUpdateRef, pendingRegionRef, timeoutRef, prevRegionRef,
                   effectTimer, timers, nextTimerId, now, fog, notifyCount,
                   lastNotified, lastApply, budget, lastAssemble, scheduled>>

InitPath == InitWith(0)

NextPath == \E hasRange \in BOOLEAN, n \in 0..MaxPoints : PathCall(hasRange, n)

SpecPath == InitPath /\ [][NextPath]_vars

-----------------------------------------------------------------------------
(* Properties                                                              *)

SameArgs(c, d) ==
    /\ c.region = d.region
    /\ c.res = d.res
    /\ c.multiplier = d.multiplier

\* C1: computeGridCellHexes is invoked at most once per grid cell key: every
\* key of the cache has been computed exactly once, whatever sequence of fog
\* computations and prefetches has run.
C1_ComputedOncePerKey ==
    /\ DOMAIN computeCalls = DOMAIN hexGridCache
    /\ \A key \in DOMAIN computeCalls : computeCalls[key] = 1

\* a prefetch has run both of its calls on a warm cache: the wide call found
\* cells of the fog computation and computed new ones
C1_Witness ==
    /\ Len(lastAssemble) = 2
    /\ lastAssemble[1].cacheHits > 0
    /\ lastAssemble[1].cacheMisses > 0
    /\ C1_ComputedOncePerKey

\* C2: the grid cache only grows: every step keeps every key and leaves the
\* value under every existing key unchanged.
C2_CacheOnlyGrows ==
    [][ /\ DOMAIN hexGridCache \subseteq DOMAIN hexGridCache'
        /\ \A key \in DOMAIN hexGridCache : hexGridCache'[key] = hexGridCache[key]
      ]_vars

\* the cache holds cells of two resolutions and the latest call added cells
\* to a cache that already had some it needed
C2_Witness ==
    /\ \E k1, k2 \in DOMAIN hexGridCache : k1[1] # k2[1]
    /\ Len(lastAssemble) > 0
    /\ lastAssemble[1].cacheHits > 0
    /\ lastAssemble[1].cacheMisses > 0

\* C3: a call with the same region, resolution and multiplier as an earlier
\* call reports no miss, a hit for every enumerated cell, and the same hexes.
C3_RepeatedCallAllHits ==
    \A i, j \in 1..Len(history) :
        (i < j /\ SameArgs(history[i], history[j])) =>
            /\ history[j].cacheMisses = 0
            /\ history[j].cacheHits = history[j].cells
            /\ history[j].hexes = history[i].hexes

\* a call is repeated after a different call that computed cells in between
C3_Witness ==
    /\ Len(history) = 3
    /\ SameArgs(history[1], history[3])
    /\ ~SameArgs(history[1], history[2])
    /\ history[1].cacheMisses > 0
    /\ history[2].cacheMisses > 0
    /\ history[3].cacheHits = history[3].cells

\* the union of computeGridCellHexes over the enumerated cells: what an
\* assembler with an always-empty cache returns
UncachedHexes(r, res, expansionMultiplier) ==
    LET cells == getGridCellsForRegion(r, res, expansionMultiplier)
    IN  UNION { computeGridCellHexes(cells[k].latCell, cells[k].lngCell, res) :
                k \in 1..Len(cells) }

\* C4: cache transparency: every call returns the union of
\* computeGridCellHexes over the cells it enumerates, whatever the cache held.
C4_CacheTransparent ==
    \A i \in 1..Len(history) :
        history[i].hexes =
            UncachedHexes(history[i].region, history[i].res, history[i].multiplier)

\* a call answered partly from cells stored by earlier calls at another
\* resolution and at the same resolution
C4_Witness ==
    /\ Len(history) = 3
    /\ history[1].res # history[3].res
    /\ history[2].res = history[3].res
    /\ history[3].cacheHits > 0
    /\ history[3].cacheMisses > 0
    /\ history[3].hexes =
         UncachedHexes(history[3].region, history[3].res, history[3].multiplier)

\* the exact fill of the unexpanded region rectangle: the hexes whose centre
\* lies in [latitude -+ latitudeDelta/2] x [longitude -+ longitudeDelta/2]
ExactFill(r, res) ==
    { h \in polyfillRect(FloorDiv(2 * r.latitude - r.latitudeDelta, 2),
                         CeilDiv(2 * r.latitude + r.latitudeDelta, 2),
                         FloorDiv(2 * r.longitude - r.longitudeDelta, 2),
                         CeilDiv(2 * r.longitude + r.longitudeDelta, 2), res) :
        LET c == HexCentre(h)
        IN  /\ 2 * c.lat >= 2 * r.latitude - r.latitudeDelta
            /\ 2 * c.lat <= 2 * r.latitude + r.latitudeDelta
            /\ 2 * c.lng >= 2 * r.longitude - r.longitudeDelta
            /\ 2 * c.lng <= 2 * r.longitude + r.longitudeDelta }

\* C5: conservative coverage: for non-negative spans and a multiplier of at
\* least 1 the returned hexes include the exact fill of the unexpanded
\* region rectangle.
C5_CoversExactFill ==
    \A i \in 1..Len(history) :
        ( /\ history[i].region.latitudeDelta >= 0
          /\ history[i].region.longitudeDelta >= 0
          /\ history[i].multiplier >= 1 ) =>
            ExactFill(history[i].region, history[i].res) \subseteq history[i].hexes

\* a call on a warm cache whose region holds hex centres, some of them in a
\* cell west of the cell of the region centre
C5_Witness ==
    /\ Len(history) >= 2
    /\ LET c == history[Len(history)]
           fill == ExactFill(c.region, c.res)
       IN  /\ c.cacheHits > 0
           /\ fill # {}
           /\ fill \subseteq c.hexes
           /\ \E h \in fill :
                getGridCellKey(HexCentre(h).lat, HexCentre(h).lng, c.res)[3]
                  < getGridCellKey(c.region.latitude, c.region.longitude, c.res)[3]

SameViewport(a, b) ==
    /\ a.latitude = b.latitude
    /\ a.longitude = b.longitude
    /\ a.latitudeDelta = b.latitudeDelta
    /\ a.longitudeDelta = b.longitudeDelta

\* C6: throttle coalescing: whenever updateRegion or its deferred timer
\* applies a viewport to the region state, it is the most recently notified
\* one, and it is not older than a viewport applied before.
C6_AppliesMostRecent ==
    lastApply.n > 0 =>
        /\ lastApply.id = lastApply.latest
        /\ lastApply.id = lastApply.newest

\* C7: the final position is applied: once no throttle timer is outstanding,
\* the region state (when updateRegion set it) is the last notified viewport.
C7_FinalViewportApplied ==
    (ThrottleTimers = {} /\ notifyCount > 0 /\ region.id # 0) =>
        SameViewport(region, lastNotified)

\* C8: any two consecutive applications of a viewport by updateRegion
\* (immediately or through its timer) are at least THROTTLE_MS apart; timers
\* never fire before their delay has passed.
C8_ApplicationsThrottled ==
    lastApply.n >= 2 => lastApply.gap >= THROTTLE_MS

C11_FogFromCurrentRegion ==
    region # NULL =>
        /\ fog.shape # "none"
        /\ fog.displayRes = getDisplayRes(region.latitudeDelta)
        /\ fog.viewportHexes =
             UncachedHexes(region, getDisplayRes(region.latitudeDelta), HEX_OVERSCAN)

\* the region was replaced by one of another resolution and the fog follows
C11_Witness ==
    /\ lastApply.n >= 2
    /\ region.id >= 2
    /\ prevRegionRef = region
    /\ fog.displayRes = 9
    /\ fog.shape = "holes"
    /\ fog.viewportHexes = UncachedHexes(region, 9, HEX_OVERSCAN)

\* the fog calls of the fog harness
FogCalls == { i \in 1..Len(history) : history[i].kind = "fog" }

\* C12: cap enforcement: a superset of exactly HEX_CAP hexes is processed
\* normally (no status, and the fog polygon unless everything is visited); a
\* superset of more than HEX_CAP hexes gives no polygons and a status.
C12_CapEnforced ==
    \A i \in FogCalls :
        /\ history[i].hexCount = HEX_CAP =>
              /\ history[i].result.fogStatus = NULL
              /\ Cardinality(history[i].visitedInside) < HEX_CAP =>
                    Len(history[i].result.fogPolygons) = 1
        /\ history[i].hexCount >= HEX_CAP + 1 =>
              /\ history[i].result.fogPolygons = <<>>
              /\ history[i].result.fogStatus # NULL

\* a superset of exactly HEX_CAP hexes with one visited hex in it: the fog
\* polygon with one hole
C12_Witness ==
    \E i \in FogCalls :
        /\ history[i].hexCount = HEX_CAP
        /\ Cardinality(history[i].visitedInside) = 1
        /\ history[i].result.fogStatus = NULL
        /\ Len(history[i].result.fogPolygons) = 1
        /\ Len(history[i].result.fogPolygons[1].holes) = 1

C14_NothingVisited ==
    \A i \in FogCalls :
        (history[i].visitedInside = {} /\ history[i].hexCount <= HEX_CAP) =>
            /\ Len(history[i].result.fogPolygons) = 1
            /\ history[i].result.fogPolygons[1].coordinates = fogOuterRing
            /\ history[i].result.fogPolygons[1].holes = <<>>
            /\ history[i].result.fogStatus = NULL

\* the visited list is not empty but none of its hexes is in the superset
C14_Witness ==
    \E i \in FogCalls :
        /\ history[i].resolved > 0
        /\ history[i].visitedInside = {}
        /\ history[i].input.res = 9
        /\ Len(history[i].result.fogPolygons) = 1
        /\ history[i].result.fogPolygons[1].holes = <<>>

\* C15 as stated: when every hex of the superset is visited, the result has
\* no polygons and no status.
C15_FullyExplored ==
    \A i \in FogCalls :
        Cardinality(history[i].visitedInside) = history[i].hexCount =>
            /\ history[i].result.fogPolygons = <<>>
            /\ history[i].result.fogStatus = NULL

\* C15 as amended: when the superset is not empty and within the cap and
\* every hex of it is visited, the result has no polygons and no status.
C15_FullyExploredWithinCap ==
    \A i \in FogCalls :
        ( /\ history[i].hexCount > 0
          /\ history[i].hexCount <= HEX_CAP
          /\ Cardinality(history[i].visitedInside) = history[i].hexCount ) =>
            /\ history[i].result.fogPolygons = <<>>
            /\ history[i].result.fogStatus = NULL

\* every hex of a superset of resolution 9 is the parent of a visited hex
C15_Witness ==
    \E i \in FogCalls :
        /\ history[i].input.res = 9
        /\ history[i].hexCount > 1
        /\ Cardinality(history[i].visitedInside) = history[i].hexCount
        /\ history[i].result.fogPolygons = <<>>
        /\ history[i].result.fogStatus = NULL

\* a list without its repeated consecutive elements, taken from the end
RECURSIVE Deduped(_)
Deduped(coords) ==
    IF Len(coords) <= 1 THEN coords
    ELSE IF coords[Len(coords)] = coords[Len(coords) - 1]
         THEN Deduped(SubSeq(coords, 1, Len(coords) - 1))
         ELSE Append(Deduped(SubSeq(coords, 1, Len(coords) - 1)), coords[Len(coords)])

AsLatLng(coords) ==
    [k \in 1..Len(coords) |-> [latitude |-> coords[k][1], longitude |-> coords[k][2]]]

\* the closed ring of a list of [lat, lng] vertices
ClosedRing(coords) ==
    LET d == AsLatLng(Deduped(coords))
    IN  IF d # <<>> /\ d[1] # d[Len(d)] THEN d \o <<d[1]>> ELSE d

\* the polygons of a merged multipolygon whose closed outer ring has at least
\* 4 vertices
HolePolygons(multi) ==
    { p \in 1..Len(multi) : Len(ClosedRing(multi[p][1])) >= 4 }

\* the calls that went through the partially explored branch, with the
\* merged polygons they were computed from
PartialCalls ==
    { i \in 1..Len(history) :
        \/ history[i].kind = "partial"
        \/ /\ history[i].kind = "fog"
           /\ history[i].hexCount <= HEX_CAP
           /\ history[i].visitedInside # {}
           /\ Cardinality(history[i].visitedInside) < history[i].hexCount }

MergedOf(i) ==
    IF history[i].kind = "partial" THEN history[i].multi
    ELSE h3SetToMultiPolygon(history[i].visitedInside)

\* C16: in the partially explored case the result is one polygon with the
\* fixed outer ring, and its holes are, in order, the closed outer rings of
\* the merged polygons that have at least 4 vertices; an inner ring of a
\* merged polygon appears nowhere.
C16_HolesAreOuterRings ==
    \A i \in PartialCalls :
        /\ Len(history[i].result.fogPolygons) = 1
        /\ history[i].result.fogPolygons[1].coordinates = fogOuterRing
        /\ Len(history[i].result.fogPolygons[1].holes)
             = Cardinality(HolePolygons(MergedOf(i)))
        /\ \A p \in HolePolygons(MergedOf(i)) :
              history[i].result.fogPolygons[1].holes[
                  Cardinality({ q \in HolePolygons(MergedOf(i)) : q <= p })]
                = ClosedRing(MergedOf(i)[p][1])
        /\ \A p \in 1..Len(MergedOf(i)) : \A q \in 2..Len(MergedOf(i)[p]) :
              \A n \in 1..Len(history[i].result.fogPolygons[1].holes) :
                  history[i].result.fogPolygons[1].holes[n] # ClosedRing(MergedOf(i)[p][q])

\* six visited hexes around an unvisited one: the merged polygon has an
\* inner ring, the fog one hole
C16_Witness ==
    \E i \in PartialCalls :
        /\ history[i].kind = "fog"
        /\ Len(MergedOf(i)) = 1
        /\ Len(MergedOf(i)[1]) = 2
        /\ Len(history[i].result.fogPolygons[1].holes) = 1
        /\ history[i].result.fogPolygons[1].holes[1] = ClosedRing(MergedOf(i)[1][1])

\* C17 as stated: a visited list that resolves to exactly one hex, inside
\* the superset, gives a result with exactly one hole.
C17_OneHexOneHole ==
    \A i \in FogCalls :
        (history[i].resolved = 1 /\ Cardinality(history[i].visitedInside) = 1) =>
            /\ Len(history[i].result.fogPolygons) = 1
            /\ Len(history[i].result.fogPolygons[1].holes) = 1

\* C17 as amended: the same when the superset is within the cap and has
\* other hexes too.
C17_OneHexOneHoleWithinCap ==
    \A i \in FogCalls :
        ( /\ history[i].resolved = 1
          /\ Cardinality(history[i].visitedInside) = 1
          /\ history[i].hexCount > 1
          /\ history[i].hexCount <= HEX_CAP ) =>
            /\ Len(history[i].result.fogPolygons) = 1
            /\ Len(history[i].result.fogPolygons[1].holes) = 1

\* two visited hexes with the same parent, seen at resolution 9: one hole
C17_Witness ==
    \E i \in FogCalls :
        /\ history[i].input.res = 9
        /\ history[i].input.visitedList = "siblings"
        /\ history[i].resolved = 1
        /\ Cardinality(history[i].visitedInside) = 1
        /\ Len(history[i].result.fogPolygons) = 1
        /\ Len(history[i].result.fogPolygons[1].holes) = 1

\* the rings of a fog result: the outer ring and the holes of each polygon
RingsOf(result) ==
    UNION { {result.fogPolygons[p].coordinates}
              \cup SeqRange(result.fogPolygons[p].holes) :
            p \in 1..Len(result.fogPolygons) }

IsClosedRing(ring) ==
    /\ Len(ring) > 0
    /\ ring[1] = ring[Len(ring)]
    /\ \A k \in 1..(Len(ring) - 1) : ring[k] # ring[k + 1]

\* C18: ring closure: every ring of every fog result has identical first and
\* last vertices and no two consecutive identical vertices.
C18_RingsClosed ==
    \A i \in 1..Len(history) : \A ring \in RingsOf(history[i].result) :
        IsClosedRing(ring)

\* an open outer ring with a repeated vertex became a closed hole
C18_Witness ==
    \E i \in 1..Len(history) :
        /\ history[i].kind = "partial"
        /\ Len(history[i].multi[1][1]) = 4
        /\ history[i].multi[1][1][1] = history[i].multi[1][1][2]
        /\ history[i].multi[1][1][1] # history[i].multi[1][1][4]
        /\ Len(history[i].result.fogPolygons[1].holes) >= 1
        /\ Len(history[i].result.fogPolygons[1].holes[1]) = 4
        /\ IsClosedRing(history[i].result.fogPolygons[1].holes[1])

\* C19: geometry degeneracy: a merged ring that has fewer than 4 vertices
\* after duplicate removal and closing is left out, and every hole has at
\* least 4 vertices.
C19_DegenerateDropped ==
    \A i \in PartialCalls :
        /\ \A n \in 1..Len(history[i].result.fogPolygons[1].holes) :
              Len(history[i].result.fogPolygons[1].holes[n]) >= 4
        /\ \A p \in 1..Len(MergedOf(i)) :
              Len(ClosedRing(MergedOf(i)[p][1])) < 4 =>
                  \A n \in 1..Len(history[i].result.fogPolygons[1].holes) :
                      history[i].result.fogPolygons[1].holes[n]
                        # ClosedRing(MergedOf(i)[p][1])

\* a ring of two distinct vertices (three after closing) is left out and the
\* polygon after it is kept
C19_Witness ==
    \E i \in PartialCalls :
        /\ history[i].kind = "partial"
        /\ Len(history[i].multi) = 2
        /\ Len(ClosedRing(history[i].multi[1][1])) = 3
        /\ Len(history[i].result.fogPolygons[1].holes) = 1
        /\ history[i].result.fogPolygons[1].holes[1] = ClosedRing(history[i].multi[2][1])

\* C20: resolution monotonicity: a larger span never gets a finer
\* resolution, every resolution lies in 0..10, and 10 is STORAGE_RES.
C20_ResolutionMonotone ==
    /\ STORAGE_RES = 10
    /\ \A i \in 1..Len(history) : history[i].res \in 0..10
    /\ \A i, j \in 1..Len(history) :
          history[i].span <= history[j].span => history[j].res <= history[i].res

\* two spans one millidegree apart on the two sides of a threshold
C20_Witness ==
    /\ Len(history) = 2
    /\ history[1].span = 899
    /\ history[2].span = 900
    /\ history[1].res = 7
    /\ history[2].res = 6

\* C21: boundary ties: a span equal to a threshold gets the coarser of the
\* two adjacent resolutions: the one of the span just above it, one less than
\* the one of the span just below it.
C21_TiesCoarser ==
    \A i, j \in 1..Len(history) :
        history[i].span \in Thresholds =>
            /\ history[j].span = history[i].span + 1 => history[i].res = history[j].res
            /\ history[j].span = history[i].span - 1 => history[i].res = history[j].res - 1

\* the span at the first threshold and the span one millidegree below it
C21_Witness ==
    /\ Len(history) = 2
    /\ history[1].span = 40
    /\ history[2].span = 39
    /\ history[1].res = 9
    /\ history[2].res = 10

\* the assembler call of the worked example: cell size 0.01 degrees
\* (resolution 10), centre (37.42, -88.31), spans (0.01, 0.01), expansion 1
ExampleCall(c) ==
    /\ c.region.latitude = 37420 /\ c.region.longitude = -88310
    /\ c.region.latitudeDelta = 10 /\ c.region.longitudeDelta = 10
    /\ c.res = 10 /\ c.multiplier = 1

\* the example call made first, on the empty cache: the keys it requested are
\* the keys the cache holds afterwards
ExampleCallFirst == Len(history) = 1 /\ ExampleCall(history[1])

\* C22 as stated: the example call requests exactly one grid cell key,
\* (latCell = 3742, lngCell = -8831).
C22_OneCellRequested ==
    ExampleCallFirst =>
        /\ history[1].cells = 1
        /\ DOMAIN hexGridCache = { CacheKey(10, 3742, -8831) }

\* C22 amended: the example call requests exactly the four grid cell keys
\* with latCell in {3741, 3742} and lngCell in {-8832, -8831}.
C22_FourCellsRequested ==
    ExampleCallFirst =>
        /\ history[1].cells = 4
        /\ history[1].cacheMisses = 4
        /\ DOMAIN hexGridCache =
               { CacheKey(10, la, ln) : la \in {3741, 3742}, ln \in {-8832, -8831} }

C22_Witness ==
    /\ ExampleCallFirst
    /\ CacheKey(10, 3742, -8831) \in DOMAIN hexGridCache
    /\ Cardinality(DOMAIN hexGridCache) = 4

\* the direction the claim gives an axis for a movement d of the centre and
\* the span of the viewport: the sign of d beyond a tenth of the span
ExpectedDirection(d, span) ==
    IF 10 * d > span THEN 1 ELSE IF 10 * (-d) > span THEN -1 ELSE 0

\* C23: the pan direction is three-valued per axis: the sign of current
\* centre minus previous centre when the absolute movement strictly exceeds
\* 0.1 times the current span (the latitude span, the zoom metric of the
\* viewport), and 0 otherwise.
C23_PanDirection ==
    \A i \in 1..Len(history) :
        history[i].prev # NULL =>
            /\ history[i].direction.lat =
                   ExpectedDirection(history[i].region.latitude - history[i].prev.latitude,
                                     history[i].region.latitudeDelta)
            /\ history[i].direction.lng =
                   ExpectedDirection(history[i].region.longitude - history[i].prev.longitude,
                                     history[i].region.latitudeDelta)

\* the worked example: previous centre (0, 0), new centre (0.5, 0), span 1.0
C23_Witness ==
    /\ Len(history) = 1
    /\ history[1].prev # NULL
    /\ history[1].prev.latitude = 0 /\ history[1].prev.longitude = 0
    /\ history[1].region.latitude = 500 /\ history[1].region.longitude = 0
    /\ history[1].region.latitudeDelta = 1000
    /\ history[1].direction = [lat |-> 1, lng |-> 0]

\* C24: the directional warm-ahead is performed exactly when the direction
\* is non-zero on some axis; it asks for the region whose centre is the
\* current centre plus direction times the current span on each axis and
\* whose spans are twice the current spans.
C24_DirectionalWarmAhead ==
    \A i \in 1..Len(history) :
        /\ Len(history[i].log) \in {1, 2}
        /\ history[i].log[1].region = history[i].region
        /\ Len(history[i].log) = 2 <=>
               (history[i].direction.lat # 0 \/ history[i].direction.lng # 0)
        /\ Len(history[i].log) = 2 =>
               /\ history[i].log[2].region.latitude =
                      history[i].region.latitude
                          + history[i].direction.lat * history[i].region.latitudeDelta
               /\ history[i].log[2].region.longitude =
                      history[i].region.longitude
                          + history[i].direction.lng * history[i].region.longitudeDelta
               /\ history[i].log[2].region.latitudeDelta =
                      2 * history[i].region.latitudeDelta
               /\ history[i].log[2].region.longitudeDelta =
                      2 * history[i].region.longitudeDelta
               /\ history[i].log[2].res = history[i].log[1].res

\* the worked example: centre (0.5, 0), span 1.0, direction (1, 0): the
\* warm-ahead asked for the region centred at (1.5, 0)
C24_Witness ==
    /\ Len(history) = 1
    /\ history[1].region.latitude = 500 /\ history[1].region.longitude = 0
    /\ history[1].region.latitudeDelta = 1000
    /\ history[1].region.longitudeDelta = 1000
    /\ history[1].direction = [lat |-> 1, lng |-> 0]
    /\ Len(history[1].log) = 2
    /\ history[1].log[2].region.latitude = 1500
    /\ history[1].log[2].region.longitude = 0
    /\ history[1].log[2].region.latitudeDelta = 2000
    /\ history[1].log[2].cells > 0

\* a step that is a call with a viewport that is not finite
MalformedStep == history' # history /\ history' # <<>> /\ budget' < budget

\* C25: a call with a viewport that is not finite (NaN or an infinite centre
\* or span) never corrupts the cache: it leaves every stored entry as it
\* was, removes none, and adds none (so none that disagrees with
\* computeGridCellHexes of its key): the enumeration yields no cell, or does
\* not return and the loop over the cells is never entered.
C25_MalformedKeepsCache ==
    [][ MalformedStep =>
            /\ \A key \in DOMAIN hexGridCache :
                   /\ key \in DOMAIN hexGridCache'
                   /\ hexGridCache'[key] = hexGridCache[key]
            /\ \A key \in DOMAIN hexGridCache' \ DOMAIN hexGridCache :
                   hexGridCache'[key] = computeGridCellHexes(key[2], key[3], key[1])
            /\ DOMAIN hexGridCache' = DOMAIN hexGridCache
      ]_vars

\* a call with a NaN latitude has returned on a cache that holds cells of
\* two resolutions, with no cell requested
C25_Witness ==
    /\ history # <<>>
    /\ history[1].input[1] = NaN
    /\ history[1].outcome = "returns"
    /\ history[1].cacheHits + history[1].cacheMisses = 0
    /\ \E k1, k2 \in DOMAIN hexGridCache : k1[1] # k2[1]

\* the stored list a fog call of the harness was given
StoredOf(c) ==
    VisitedList(c.input.visitedList, c.input.res, c.input.rows, c.input.cols)

\* C26: the resolved visited set is the stored set when the display
\* resolution is the storage resolution 10, and the set of the parents at
\* the display resolution of the stored hexes when it is coarser.
C26_ResolvedVisited ==
    \A i \in FogCalls :
        /\ history[i].input.res = 10 =>
               history[i].visitedAtRes = StoredOf(history[i])
        /\ history[i].input.res < 10 =>
               /\ history[i].visitedAtRes =
                      { h3ToParent(h, history[i].input.res) : h \in StoredOf(history[i]) }
               /\ \A p \in history[i].visitedAtRes : p[1] = history[i].input.res

\* two stored hexes with one parent at resolution 9 resolve to one hex
C26_Witness ==
    /\ FogCalls # {}
    /\ history[1].input.res = 9
    /\ history[1].input.visitedList = "siblings"
    /\ Cardinality(StoredOf(history[1])) = 2
    /\ Cardinality(history[1].visitedAtRes) = 1

\* C27: the diagnostics only observe: two fog computations with the same
\* region and the same visited list return the same polygons, status and
\* resolution, whatever total time each measured (under or over the 20 ms
\* budget) and whether its grid cells were cache hits or misses.
C27_DiagnosticsObserveOnly ==
    \A i, j \in 1..Len(history) :
        (/\ history[i].region = history[j].region
         /\ history[i].visitedList = history[j].visitedList)
        => history[i].outcome.returned = history[j].outcome.returned

\* the same partly explored view computed twice: first with cache misses
\* and within the budget, then from the cache and over the budget, with a
\* warning
C27_Witness ==
    /\ Len(history) = 2
    /\ history[1].region = history[2].region
    /\ history[1].visitedList = history[2].visitedList
    /\ history[1].visitedList # {}
    /\ history[1].outcome.cacheMisses > 0
    /\ history[2].outcome.cacheMisses = 0
    /\ history[2].outcome.cacheHits > 0
    /\ ~history[1].outcome.warned
    /\ history[2].outcome.warned
    /\ history[1].totalTime <= 20
    /\ history[2].totalTime > 20
    /\ Len(history[2].outcome.returned.fogPolygons) = 1
    /\ Len(history[2].outcome.returned.fogPolygons[1].holes) > 0

\* the latest call of the assembler harness
LatestCall == history'[Len(history')]

\* the keys of the cells a call enumerated
RequestedKeys(c) ==
    LET cells == getGridCellsForRegion(c.region, c.res, c.multiplier)
    IN  { CacheKey(c.res, cells[k].latCell, cells[k].lngCell) : k \in 1..Len(cells) }

\* C28: a cell missing from the cache is never an error: every call with a
\* finite region completes with cacheHits + cacheMisses equal to the number
\* of cells it enumerated, cacheMisses equal to the number of those cells
\* that had no entry before the call, and an entry for every one of them
\* after it.
C28_AbsenceIsNoError ==
    [][ Len(history') = Len(history) + 1 =>
            /\ LatestCall.cacheHits + LatestCall.cacheMisses = LatestCall.cells
            /\ LatestCall.cells = Cardinality(RequestedKeys(LatestCall))
            /\ LatestCall.cacheMisses =
                   Cardinality(RequestedKeys(LatestCall) \ DOMAIN hexGridCache)
            /\ RequestedKeys(LatestCall) \subseteq DOMAIN hexGridCache'
      ]_vars

\* a call has found some of its cells in the cache and computed the others
C28_Witness ==
    /\ Len(history) >= 2
    /\ history[Len(history)].cacheHits > 0
    /\ history[Len(history)].cacheMisses > 0
    /\ RequestedKeys(history[Len(history)]) \subseteq DOMAIN hexGridCache

\* C29: the resolution is part of the cache key: a call at resolution r adds
\* entries of resolution r only, counts as hits only entries of resolution
\* r, and leaves every entry of another resolution as it was.
C29_ResolutionInKey ==
    [][ Len(history') = Len(history) + 1 =>
            /\ \A key \in DOMAIN hexGridCache' \ DOMAIN hexGridCache :
                   key[1] = LatestCall.res
            /\ \A key \in DOMAIN hexGridCache :
                   key[1] # LatestCall.res =>
                       /\ key \in DOMAIN hexGridCache'
                       /\ hexGridCache'[key] = hexGridCache[key]
            /\ LatestCall.cacheHits =
                   Cardinality({ key \in DOMAIN hexGridCache :
                                   /\ key[1] = LatestCall.res
                                   /\ key \in RequestedKeys(LatestCall) })
            /\ \A h \in LatestCall.hexes : h[1] = LatestCall.res
      ]_vars

\* the cache holds the cell (0, 0) at resolution 10 and at resolution 9, with
\* different hexes, and the latest call was at resolution 9
C29_Witness ==
    /\ Len(history) >= 2
    /\ history[Len(history)].res = 9
    /\ CacheKey(10, 0, 0) \in DOMAIN hexGridCache
    /\ CacheKey(9, 0, 0) \in DOMAIN hexGridCache
    /\ hexGridCache[CacheKey(10, 0, 0)] # hexGridCache[CacheKey(9, 0, 0)]

\* C30: the visited list in memory is at every moment a subset of the rows
\* of the table, and whenever a refresh replaces it, it is the rows of the
\* table at that moment.
C30_VisitedWithinStore ==
    [][ /\ visited \subseteq store
        /\ visited' \subseteq store'
        /\ visited' # visited => visited' = store'
      ]_vars

\* a refresh has brought in the hex the background task added after the
\* list was last read
C30_Witness ==
    /\ Cardinality(store) = 2
    /\ visited = store
    /\ \E p \in BackgroundPositions : geoToH3(p[1], p[2], STORAGE_RES) \in visited
    /\ \E p \in Positions : geoToH3(p[1], p[2], STORAGE_RES) \in visited

\* a step in which a prefetch timer fired: a prefetch timer is gone and no
\* effect has run
PrefetchStep31 ==
    /\ effectTimer' = effectTimer
    /\ \E t \in PrefetchTimers : t \notin timers'

CellsOfCall(c) ==
    LET cells == getGridCellsForRegion(c.region, c.res, c.multiplier)
    IN  { <<cells[k].latCell, cells[k].lngCell>> : k \in 1..Len(cells) }

\* The whole millidegrees between the two ends of the expanded, padded box
\* on an axis, for the centre x and the span d.  The ends are halves of
\* 2x -+ d*m -+ 2*pad; a point between two whole millidegrees lies in the
\* cell of the one below it.
BoxPoints(x, d, c) ==
    { p \in (x - d * c.multiplier - PadOf(c.res) - 1) ..
            (x + d * c.multiplier + PadOf(c.res) + 1) :
        /\ 2 * p + 2 > 2 * x - d * c.multiplier - 2 * PadOf(c.res)
        /\ 2 * p <= 2 * x + d * c.multiplier + 2 * PadOf(c.res) }

\* C32: the cell enumeration covers the padded box: the grid cell
\* (floor(lat / cellSize), floor(lng / cellSize)) of every point of the
\* expanded, padded box is among the cells returned, and the cells returned
\* are the full rectangle of rows and columns between the least and the
\* greatest of them, at least one cell.
C32_CellsCoverBox ==
    \A i \in 1..Len(history) :
        LET c == history[i]
            cells == CellsOfCall(c)
            rows == { cell[1] : cell \in cells }
            cols == { cell[2] : cell \in cells }
        IN  /\ cells # {}
            /\ c.cells = Cardinality(cells)
            /\ \A p \in BoxPoints(c.region.latitude, c.region.latitudeDelta, c) :
                   FloorDiv(p, CellSizeOf(c.res)) \in rows
            /\ \A p \in BoxPoints(c.region.longitude, c.region.longitudeDelta, c) :
                   FloorDiv(p, CellSizeOf(c.res)) \in cols
            /\ cells = rows \X cols
            /\ \A a \in rows, b \in rows : \A m \in a..b : m \in rows
            /\ \A a \in cols, b \in cols : \A m \in a..b : m \in cols

\* a box across the equator and the prime meridian: rows and columns of
\* both signs
C32_Witness ==
    /\ Len(history) >= 1
    /\ history[1].region.latitude = 3
    /\ history[1].res = 10
    /\ \E a, b \in CellsOfCall(history[1]) : a[1] < 0 /\ b[1] > 0 /\ a[2] < 0 /\ b[2] >= 0

\* C33: expansion is monotone: for the same region and resolution the cells
\* enumerated with a multiplier are among those enumerated with any larger
\* multiplier; those of the 4x overscan are among those of the 6x prefetch.
C33_ExpansionMonotone ==
    \A i, j \in 1..Len(history) :
        (/\ history[i].region = history[j].region
         /\ history[i].res = history[j].res
         /\ history[i].multiplier <= history[j].multiplier)
        => CellsOfCall(history[i]) \subseteq CellsOfCall(history[j])

\* the same view enumerated with the 4x overscan and the 6x expansion, the
\* latter with more cells
C33_Witness ==
    \E i, j \in 1..Len(history) :
        /\ history[i].region = history[j].region
        /\ history[i].res = history[j].res
        /\ history[i].multiplier = HEX_OVERSCAN
        /\ history[j].multiplier = PREFETCH_EXPANSION
        /\ history[i].cells < history[j].cells

C34_WarmAhead ==
    (/\ Len(history) = 2
     /\ history[2].region.latitudeDelta = history[1].region.latitudeDelta
     /\ history[2].region.longitudeDelta = history[1].region.longitudeDelta
     /\ Abs(history[2].region.latitude - history[1].region.latitude)
            <= history[1].region.latitudeDelta
     /\ Abs(history[2].region.longitude - history[1].region.longitude)
            <= history[1].region.longitudeDelta)
    => /\ history[2].log[1].multiplier = HEX_OVERSCAN
       /\ history[2].log[1].cacheMisses = 0

\* the next viewport lies exactly one span away on both axes and its fog
\* found all of its cells
C34_Witness ==
    /\ Len(history) = 2
    /\ history[1].log[1].cacheMisses > 0
    /\ history[2].region.latitude = history[1].region.latitude + history[1].region.latitudeDelta
    /\ history[2].region.longitude = history[1].region.longitude - history[1].region.longitudeDelta
    /\ history[2].log[1].cacheHits > 0
    /\ history[2].log[1].cacheMisses = 0

\* C36: throttle bookkeeping: at most one throttle timer is outstanding, and
\* a deferred viewport is pending if and only if a throttle timer is
\* outstanding (the one timeoutRef holds).
C36_ThrottleBookkeeping ==
    /\ Cardinality(ThrottleTimers) <= 1
    /\ pendingRegionRef # NULL <=> ThrottleTimers # {}
    /\ timeoutRef # NoTimer <=> ThrottleTimers # {}
    /\ \A t \in ThrottleTimers : t.id = timeoutRef

\* a second viewport was deferred while the timer of the first was
\* outstanding: one timer, the later viewport pending
C36_Witness ==
    /\ Cardinality(ThrottleTimers) = 1
    /\ pendingRegionRef # NULL
    /\ pendingRegionRef.id = notifyCount
    /\ notifyCount >= 3
    /\ lastApply.id < pendingRegionRef.id - 1

\* C37: the previous-region reference is updated on every region change,
\* whether or not the prefetch scheduled for that region runs: after every
\* step it is the region state, the prefetch scheduled by a region change
\* has the pan direction of the new region against the region state just
\* before ((0, 0) when there was none), and a prefetch with direction (0, 0)
\* makes the wide call only.
C37_DirectionAgainstPreceding ==
    [][ /\ prevRegionRef' = region'
        /\ region' # region =>
               \E t \in PrefetchTimers' :
                   /\ t.id = effectTimer'
                   /\ t.region = region'
                   /\ t.direction = PanDirection(region, region')
                   /\ region = NULL => t.direction = [lat |-> 0, lng |-> 0]
        /\ \A t \in PrefetchTimers :
               (PrefetchStep31 /\ t \notin timers') =>
                   (Len(lastAssemble') = 1 <=> t.direction = [lat |-> 0, lng |-> 0])
      ]_vars

\* no time has passed, so no prefetch has run: the prefetch of the first
\* region was cancelled, and the prefetch of the second region has the
\* direction of the pan north from the first
C37_Witness ==
    /\ now = StartNow
    /\ Cardinality(scheduled) = 2
    /\ Cardinality(PrefetchTimers) = 1
    /\ \E t \in PrefetchTimers : t.direction = [lat |-> 1, lng |-> 0] /\ t.region = region
    /\ prevRegionRef = region

\* C38: getGridCellsForRegion, and so every assembler call, terminates with
\* a finite number of cells for every input region, also one whose centre
\* or span is NaN or infinite: every call made has returned.
C38_AlwaysTerminates ==
    history # <<>> => history[1].outcome = "returns"

\* C39: path replay caps its segments: for every number of location points
\* in the time range pathSegments holds at most 50 segments, and none when
\* there are fewer than 2 points.
C39_SegmentsCapped ==
    \A i \in 1..Len(history) :
        /\ Len(history[i].segments) <= 50
        /\ history[i].points < 2 => history[i].segments = <<>>

=============================================================================
